---- MODULE Spec2Model ----
(***************************************************************************)
(* Agent Memory Governance (AMG): the kill switch, the in-memory storage   *)
(* adapter, the governed context builder, the LangGraph adapter and the    *)
(* HTTP handlers of src/amg, as one state machine.                         *)
(*                                                                         *)
(* Python dicts keep insertion order, so every dict of the program is a    *)
(* sequence of entries here (KillSwitch._agent_states, the adapter's       *)
(* _memories); lists are sequences.  uuid4() values are drawn from         *)
(* counters, datetime.utcnow() is the variable now.                        *)
(***************************************************************************)
EXTENDS Integers, Sequences, FiniteSets, TLC

\* ------------------------------------------------------------------ bounds
\* most records the kill switch's own audit log may hold
MaxKsAudit == 3
\* most records the storage adapter's audit log may hold
MaxAudit == 3
\* most memories ever written (memory ids m1 .. mMaxMem)
MaxMem == 2
\* last instant of the clock
MaxNow == 1

\* ------------------------------------------------------------ enumerations
Agents == {"a", "b"}
\* an agent_id that is the empty string
EmptyAgent == ""
\* Python's None
None == "None"

STATE_ENABLED == "enabled"
STATE_DISABLED == "disabled"
STATE_FROZEN == "frozen"
AgentState == {STATE_ENABLED, STATE_DISABLED, STATE_FROZEN}

OP_READ == "read"
OP_WRITE == "write"
OP_QUERY == "query"
OperationType == {OP_READ, OP_WRITE, OP_QUERY}

SCOPE_AGENT == "agent"
SCOPE_TENANT == "tenant"
Scope == {SCOPE_AGENT, SCOPE_TENANT}

PII == "pii"
NON_PII == "non_pii"
Sensitivity == {PII, NON_PII}

SHORT_TERM == "short_term"
LONG_TERM == "long_term"
EPISODIC == "episodic"
MemoryType == {SHORT_TERM, LONG_TERM, EPISODIC}

POLICY_VERSION == "1.0.0"

VARIABLES
    agent_states,    \* KillSwitch._agent_states: dict agent_id -> AgentState
    ks_audit_log,    \* KillSwitch._audit_log: dict audit_id -> AuditRecord
    memories,        \* InMemoryStorageAdapter._memories: dict memory_id -> Memory
    audit_log,       \* InMemoryStorageAdapter._audit_log: list of AuditRecord
    now,             \* datetime.utcnow()
    audit_seq,       \* number of AuditRecord objects constructed (uuid4 source)
    mem_seq,         \* number of Memory objects constructed with a fresh uuid4
    ret,             \* what the last call returned or raised
    disabled_since,  \* agents X: disable(X) has returned and no enable(X) since
    calls,           \* completed adapter invocations, counted by operation
    pending,         \* write requests past their kill-switch check, not yet stored
    pg               \* PostgresStorageAdapter: the memory and audit_log tables

vars == <<agent_states, ks_audit_log, memories, audit_log, now, audit_seq,
          mem_seq, ret, disabled_since, calls, pending, pg>>

ks_vars == <<agent_states, ks_audit_log, disabled_since>>
store_vars == <<memories, audit_log, mem_seq, calls>>

\* ------------------------------------------------------- insertion-ordered dict
\* positions of key k in dict d (a sequence of records with field key)
DictIndex(d, k) == {i \in 1..Len(d) : d[i].key = k}
DictHas(d, k) == DictIndex(d, k) # {}
DictGet(d, k) == d[CHOOSE i \in DictIndex(d, k) : TRUE].value
\* d[k] = v: an existing key keeps its position, a new key goes last
DictSet(d, k, v) ==
    IF DictHas(d, k)
    THEN [i \in 1..Len(d) |-> IF d[i].key = k THEN [key |-> k, value |-> v] ELSE d[i]]
    ELSE Append(d, [key |-> k, value |-> v])
\* del d[k]
DictDel(d, k) == SelectSeq(d, LAMBDA e : e.key # k)
DictKeys(d) == [i \in 1..Len(d) |-> d[i].key]
DictValues(d) == [i \in 1..Len(d) |-> d[i].value]

\* ------------------------------------------------------------ audit records
\* signature: str = ""
NoSignature == <<>>

\* AuditRecord(...): audit_id and timestamp are generated at construction,
\* the signature is empty until the creator sets it
AuditRecord(id, ts, agent_id, operation, memory_id, decision, reason, actor_id, metadata) ==
    [audit_id |-> id, timestamp |-> ts, agent_id |-> agent_id, request_id |-> "",
     operation |-> operation, memory_id |-> memory_id,
     policy_version |-> POLICY_VERSION, decision |-> decision, reason |-> reason,
     actor_id |-> actor_id, metadata |-> metadata, signature |-> NoSignature]

\* sha256 of the canonical JSON of the signed fields: the digest is modelled
\* by the record of the fields it is computed from (it differs when they do)
ks_sign_record(record) ==
    [audit_id |-> record.audit_id, timestamp |-> record.timestamp,
     agent_id |-> record.agent_id, operation |-> record.operation,
     decision |-> record.decision, reason |-> record.reason]

sign_record(record) ==
    [audit_id |-> record.audit_id, timestamp |-> record.timestamp,
     agent_id |-> record.agent_id, operation |-> record.operation,
     memory_id |-> record.memory_id,
     decision |-> record.decision, reason |-> record.reason]

Signed(record, sig) == [record EXCEPT !.signature = sig]

\* ------------------------------------------------------------- kill switch
get_state(states, agent_id) ==
    IF DictHas(states, agent_id) THEN DictGet(states, agent_id) ELSE STATE_ENABLED

check_allowed_ignores_frozen(states, agent_id, operation) ==
    LET state == get_state(states, agent_id) IN
    IF state = STATE_DISABLED
    THEN [allowed |-> FALSE, reason |-> "agent_disabled"]
    ELSE [allowed |-> TRUE, reason |-> None]

check_allowed(states, agent_id, operation) ==
    LET state == get_state(states, agent_id) IN
    IF state = STATE_DISABLED
    THEN [allowed |-> FALSE, reason |-> "agent_disabled"]
    ELSE IF state = STATE_FROZEN
         THEN IF operation = OP_WRITE
              THEN [allowed |-> FALSE, reason |-> "agent_frozen_write_denied"]
              ELSE [allowed |-> TRUE, reason |-> None]
         ELSE [allowed |-> TRUE, reason |-> None]

\* a kill-switch transition: set the state, build and sign the record, keep
\* it in the kill switch's own log, return it
ks_transition(states, kslog, seq, t, agent_id, state, operation, reason, actor_id, metadata) ==
    LET audit0 == AuditRecord(seq + 1, t, agent_id, operation, None, "allowed",
                              reason, actor_id, metadata)
        audit == Signed(audit0, ks_sign_record(audit0))
    IN [states |-> DictSet(states, agent_id, state),
        log |-> DictSet(kslog, audit.audit_id, audit),
        seq |-> seq + 1,
        audit |-> audit]

ks_disable_toggles(states, kslog, seq, t, agent_id, reason, actor_id) ==
    ks_transition(states, kslog, seq, t, agent_id,
                  IF get_state(states, agent_id) = STATE_DISABLED
                  THEN STATE_ENABLED ELSE STATE_DISABLED,
                  "disable", reason, actor_id,
                  [state |-> STATE_DISABLED, disabled_by |-> actor_id])

ks_disable(states, kslog, seq, t, agent_id, reason, actor_id) ==
    ks_transition(states, kslog, seq, t, agent_id, STATE_DISABLED, "disable",
                  reason, actor_id,
                  [state |-> STATE_DISABLED, disabled_by |-> actor_id])

ks_freeze_writes_enables(states, kslog, seq, t, agent_id, reason, actor_id) ==
    ks_transition(states, kslog, seq, t, agent_id, STATE_ENABLED, "freeze",
                  reason, actor_id,
                  [state |-> STATE_FROZEN, writes_blocked |-> TRUE, reads_allowed |-> TRUE])

ks_freeze_writes(states, kslog, seq, t, agent_id, reason, actor_id) ==
    ks_transition(states, kslog, seq, t, agent_id, STATE_FROZEN, "freeze",
                  reason, actor_id,
                  [state |-> STATE_FROZEN, writes_blocked |-> TRUE, reads_allowed |-> TRUE])

ks_enable_silent_when_enabled(states, kslog, seq, t, agent_id, actor_id) ==
    LET r == ks_transition(states, kslog, seq, t, agent_id, STATE_ENABLED, "enable",
                           "agent_reenabled", actor_id, [state |-> STATE_ENABLED])
    IN IF get_state(states, agent_id) = STATE_ENABLED
       THEN [r EXCEPT !.states = states, !.log = kslog]
       ELSE r

ks_enable(states, kslog, seq, t, agent_id, actor_id) ==
    ks_transition(states, kslog, seq, t, agent_id, STATE_ENABLED, "enable",
                  "agent_reenabled", actor_id, [state |-> STATE_ENABLED])

RECURSIVE ks_shutdown_loop_skips_frozen(_, _, _, _, _, _, _, _)
ks_shutdown_loop_skips_frozen(keys, states, kslog, seq, t, reason, actor_id, out) ==
    IF keys = <<>>
    THEN [states |-> states, log |-> kslog, seq |-> seq, records |-> out]
    ELSE IF DictGet(states, Head(keys)) = STATE_ENABLED
         THEN LET r == ks_disable(states, kslog, seq, t, Head(keys), reason, actor_id)
              IN ks_shutdown_loop_skips_frozen(Tail(keys), r.states, r.log, r.seq, t,
                                               reason, actor_id, Append(out, r.audit))
         ELSE ks_shutdown_loop_skips_frozen(Tail(keys), states, kslog, seq, t, reason,
                                            actor_id, out)

\* global_shutdown's loop over list(self._agent_states.keys())
RECURSIVE ks_shutdown_loop(_, _, _, _, _, _, _, _)
ks_shutdown_loop(keys, states, kslog, seq, t, reason, actor_id, out) ==
    IF keys = <<>>
    THEN [states |-> states, log |-> kslog, seq |-> seq, records |-> out]
    ELSE IF DictGet(states, Head(keys)) # STATE_DISABLED
         THEN LET r == ks_disable(states, kslog, seq, t, Head(keys), reason, actor_id)
              IN ks_shutdown_loop(Tail(keys), r.states, r.log, r.seq, t, reason,
                                  actor_id, Append(out, r.audit))
         ELSE ks_shutdown_loop(Tail(keys), states, kslog, seq, t, reason, actor_id, out)

ks_global_shutdown_every_agent(states, kslog, seq, t, reason, actor_id) ==
    LET unknown == SelectSeq(<<"a", "b">>, LAMBDA agent_id : ~DictHas(states, agent_id))
        all == states \o [i \in 1..Len(unknown) |->
                              [key |-> unknown[i], value |-> STATE_ENABLED]]
    IN ks_shutdown_loop(DictKeys(all), all, kslog, seq, t, reason, actor_id, <<>>)

ks_global_shutdown(states, kslog, seq, t, reason, actor_id) ==
    ks_shutdown_loop(DictKeys(states), states, kslog, seq, t, reason, actor_id, <<>>)

\* sorted(records, key=lambda r: r.timestamp): stable, ascending
RECURSIVE sorted_by_timestamp(_)
sorted_by_timestamp(records) ==
    IF records = <<>> THEN <<>>
    ELSE LET rest == sorted_by_timestamp(SubSeq(records, 1, Len(records) - 1))
             last == records[Len(records)]
             keep == {i \in 1..Len(rest) : rest[i].timestamp <= last.timestamp}
             n == Cardinality(keep)
         IN SubSeq(rest, 1, n) \o <<last>> \o SubSeq(rest, n + 1, Len(rest))

\* KillSwitch.get_audit_log(agent_id): a falsy agent_id (None, "") filters nothing
ks_get_audit_log(kslog, agent_id) ==
    LET records == DictValues(kslog)
    IN sorted_by_timestamp(
           IF agent_id \notin {None, EmptyAgent}
           THEN SelectSeq(records, LAMBDA r : r.agent_id = agent_id)
           ELSE records)

\* ------------------------------------------------------------------ types
MemoryPolicy(memory_type, ttl_seconds, sensitivity, scope, allow_read) ==
    [memory_type |-> memory_type, ttl_seconds |-> ttl_seconds,
     sensitivity |-> sensitivity, scope |-> scope,
     allow_read |-> allow_read, allow_write |-> TRUE]

\* Memory.__post_init__: expires_at = created_at + ttl_seconds
Memory(memory_id, agent_id, content, policy, created_at) ==
    [memory_id |-> memory_id, agent_id |-> agent_id, content |-> content,
     policy |-> policy, created_at |-> created_at,
     expires_at |-> created_at + policy.ttl_seconds]

is_expired_strictly_after(memory, t) == t > memory.expires_at

is_expired(memory, t) == t >= memory.expires_at

\* ------------------------------------------------------------ Python values
\* a str as its characters, for the strings whose characters the code looks at
Chars(s) ==
    CASE s = PII -> <<"p", "i", "i">>
      [] s = NON_PII -> <<"n", "o", "n", "_", "p", "i", "i">>
      [] OTHER -> <<s>>

\* x in y for two str: x is a substring of y
IsSubstring(x, y) ==
    \E i \in 0..(Len(y) - Len(x)) : \A j \in 1..Len(x) : y[i + j] = x[j]

\* a filter value is a str or a list of str
PyStr(s) == [kind |-> "str", value |-> s]
PyList(items) == [kind |-> "list", value |-> items]

\* x in container, x a str
py_in(x, container) ==
    IF container.kind = "str"
    THEN IsSubstring(Chars(x), Chars(container.value))
    ELSE \E i \in 1..Len(container.value) : container.value[i] = x

py_slice_to_end(seq, n) == seq

\* seq[:n]
py_slice_to(seq, n) ==
    LET stop == IF n >= 0 THEN (IF n < Len(seq) THEN n ELSE Len(seq))
                ELSE (IF Len(seq) + n > 0 THEN Len(seq) + n ELSE 0)
    IN SubSeq(seq, 1, stop)

\* an Optional[int], Optional[list] or Optional[datetime] argument: <<>> is
\* None, <<v>> is v
Absent == <<>>
Given(v) == <<v>>

\* seq[start:stop]
py_slice(seq, start, stop) ==
    LET norm(i) == IF i >= 0 THEN (IF i < Len(seq) THEN i ELSE Len(seq))
                   ELSE (IF Len(seq) + i > 0 THEN Len(seq) + i ELSE 0)
    IN SubSeq(seq, norm(start) + 1, norm(stop))

\* ------------------------------------------------- in-memory storage adapter
NoFilters == <<>>

_passes_filters(memory, filters) ==
    /\ ("memory_types" \in DOMAIN filters
            => py_in(memory.policy.memory_type, filters["memory_types"]))
    /\ ("sensitivity" \in DOMAIN filters
            => py_in(memory.policy.sensitivity, filters["sensitivity"]))
    /\ ("scope" \in DOMAIN filters
            => memory.policy.scope = filters["scope"])

_can_read_sensitivity(agent_id, memory) == TRUE

\* the adapter's audit record, signed
adapter_audit(seq, t, agent_id, operation, memory_id, decision, reason, actor_id, metadata) ==
    LET audit0 == AuditRecord(seq + 1, t, agent_id, operation, memory_id, decision,
                              reason, actor_id, metadata)
    IN Signed(audit0, sign_record(audit0))

_create_denied_audit(seq, t, agent_id, operation, memory_id, reason) ==
    adapter_audit(seq, t, agent_id, operation, memory_id, "denied", reason, agent_id, <<>>)

adapter_write_no_ttl_check(mems, log, seq, t, memory) ==
    IF memory.agent_id = EmptyAgent
    THEN [raised |-> "PolicyEnforcementError", memories |-> mems, log |-> log,
          seq |-> seq, audit |-> None]
    ELSE LET audit == adapter_audit(seq, t, memory.agent_id, "write", memory.memory_id,
                          "allowed", "policy_enforcement_passed", memory.agent_id,
                          [memory_type |-> memory.policy.memory_type,
                           sensitivity |-> memory.policy.sensitivity,
                           scope |-> memory.policy.scope,
                           ttl_seconds |-> memory.policy.ttl_seconds])
         IN [raised |-> None, memories |-> DictSet(mems, memory.memory_id, memory),
             log |-> Append(log, audit), seq |-> seq + 1, audit |-> audit]

adapter_write(mems, log, seq, t, memory) ==
    IF memory.agent_id = EmptyAgent \/ memory.policy.ttl_seconds <= 0
    THEN [raised |-> "PolicyEnforcementError", memories |-> mems, log |-> log,
          seq |-> seq, audit |-> None]
    ELSE LET audit == adapter_audit(seq, t, memory.agent_id, "write", memory.memory_id,
                          "allowed", "policy_enforcement_passed", memory.agent_id,
                          [memory_type |-> memory.policy.memory_type,
                           sensitivity |-> memory.policy.sensitivity,
                           scope |-> memory.policy.scope,
                           ttl_seconds |-> memory.policy.ttl_seconds])
         IN [raised |-> None, memories |-> DictSet(mems, memory.memory_id, memory),
             log |-> Append(log, audit), seq |-> seq + 1, audit |-> audit]

\* which of read's checks fails first for a stored memory
read_denial_scope_before_ttl(memory, agent_id, t) ==
    IF memory.policy.scope = SCOPE_AGENT /\ memory.agent_id # agent_id
    THEN "scope_isolation_violation"
    ELSE IF is_expired(memory, t) THEN "memory_expired"
    ELSE IF ~memory.policy.allow_read THEN "read_not_allowed"
    ELSE None

read_denial_no_scope_check(memory, agent_id, t) ==
    IF is_expired(memory, t) THEN "memory_expired"
    ELSE IF ~memory.policy.allow_read THEN "read_not_allowed"
    ELSE None

read_denial(memory, agent_id, t) ==
    IF is_expired(memory, t) THEN "memory_expired"
    ELSE IF memory.policy.scope = SCOPE_AGENT /\ memory.agent_id # agent_id
    THEN "scope_isolation_violation"
    ELSE IF ~memory.policy.allow_read THEN "read_not_allowed"
    ELSE None

adapter_read_silent_denial(mems, log, seq, t, memory_id, agent_id) ==
    LET reason == IF ~DictHas(mems, memory_id) THEN "memory_not_found"
                  ELSE read_denial(DictGet(mems, memory_id), agent_id, t)
    IN IF reason # None
       THEN LET audit == _create_denied_audit(seq, t, agent_id, "read", memory_id, reason)
            IN [memory |-> <<>>, log |-> log, seq |-> seq + 1, audit |-> audit]
       ELSE LET memory == DictGet(mems, memory_id)
                audit == adapter_audit(seq, t, agent_id, "read", memory_id, "allowed",
                             "policy_checks_passed", agent_id,
                             [scope |-> memory.policy.scope,
                              sensitivity |-> memory.policy.sensitivity])
            IN [memory |-> <<memory>>, log |-> Append(log, audit), seq |-> seq + 1,
                audit |-> audit]

adapter_read(mems, log, seq, t, memory_id, agent_id) ==
    LET reason == IF ~DictHas(mems, memory_id) THEN "memory_not_found"
                  ELSE read_denial(DictGet(mems, memory_id), agent_id, t)
    IN IF reason # None
       THEN LET audit == _create_denied_audit(seq, t, agent_id, "read", memory_id, reason)
            IN [memory |-> <<>>, log |-> Append(log, audit), seq |-> seq + 1,
                audit |-> audit]
       ELSE LET memory == DictGet(mems, memory_id)
                audit == adapter_audit(seq, t, agent_id, "read", memory_id, "allowed",
                             "policy_checks_passed", agent_id,
                             [scope |-> memory.policy.scope,
                              sensitivity |-> memory.policy.sensitivity])
            IN [memory |-> <<memory>>, log |-> Append(log, audit), seq |-> seq + 1,
                audit |-> audit]

adapter_delete_keeps_memory(mems, log, seq, t, memory_id, actor_id, reason) ==
    IF ~DictHas(mems, memory_id)
    THEN [raised |-> "MemoryNotFoundError", memories |-> mems, log |-> log,
          seq |-> seq, audit |-> None]
    ELSE LET memory == DictGet(mems, memory_id)
             audit == adapter_audit(seq, t, memory.agent_id, "delete", memory_id,
                          "allowed", reason, actor_id, [deletion_reason |-> reason])
         IN [raised |-> None, memories |-> mems,
             log |-> Append(log, audit), seq |-> seq + 1, audit |-> audit]

adapter_delete(mems, log, seq, t, memory_id, actor_id, reason) ==
    IF ~DictHas(mems, memory_id)
    THEN [raised |-> "MemoryNotFoundError", memories |-> mems, log |-> log,
          seq |-> seq, audit |-> None]
    ELSE LET memory == DictGet(mems, memory_id)
             audit == adapter_audit(seq, t, memory.agent_id, "delete", memory_id,
                          "allowed", reason, actor_id, [deletion_reason |-> reason])
         IN [raised |-> None, memories |-> DictDel(mems, memory_id),
             log |-> Append(log, audit), seq |-> seq + 1, audit |-> audit]

\* the retrieval guard of query: what one memory must pass to be returned
query_guard_no_scope_check(memory, filters, agent_id, t) ==
    /\ _passes_filters(memory, filters)
    /\ ~is_expired(memory, t)
    /\ _can_read_sensitivity(agent_id, memory)
    /\ memory.policy.allow_read

query_guard(memory, filters, agent_id, t) ==
    /\ _passes_filters(memory, filters)
    /\ ~is_expired(memory, t)
    /\ ~(memory.policy.scope = SCOPE_AGENT /\ memory.agent_id # agent_id)
    /\ _can_read_sensitivity(agent_id, memory)
    /\ memory.policy.allow_read

\* query without a "vector" filter: the guarded memories in _memories order
adapter_query(mems, log, seq, t, filters, agent_id) ==
    LET all == DictValues(mems)
        results == SelectSeq(all, LAMBDA m : query_guard(m, filters, agent_id, t))
        audit == adapter_audit(seq, t, agent_id, "query", None, "allowed",
                     "query_executed_with_filters", agent_id,
                     [total_records_examined |-> Len(all),
                      filtered_count |-> Len(all) - Len(results),
                      returned_count |-> Len(results),
                      filters |-> filters])
    IN [results |-> results, log |-> Append(log, audit), seq |-> seq + 1,
        audit |-> audit]

adapter_write_audit_record(log, record) ==
    Append(log, IF record.signature = NoSignature
                THEN Signed(record, sign_record(record)) ELSE record)

\* list.sort(key=lambda x: x.timestamp, reverse=True): descending, and records
\* of equal timestamp keep their order
RECURSIVE sort_timestamp_reverse(_)
sort_timestamp_reverse(records) ==
    IF records = <<>> THEN <<>>
    ELSE LET rest == sort_timestamp_reverse(SubSeq(records, 1, Len(records) - 1))
             last == records[Len(records)]
             keep == {i \in 1..Len(rest) : rest[i].timestamp >= last.timestamp}
             n == Cardinality(keep)
         IN SubSeq(rest, 1, n) \o <<last>> \o SubSeq(rest, n + 1, Len(rest))

\* InMemoryStorageAdapter.get_audit_log: each filter that is given builds a
\* new list; with none given `results` is self._audit_log itself, and
\* results.sort sorts the adapter's log
adapter_get_audit_log(log, agent_id, start_time, end_time, operation, limit, offset) ==
    LET by_agent == IF agent_id \notin {None, EmptyAgent}
                    THEN SelectSeq(log, LAMBDA r : r.agent_id = agent_id) ELSE log
        by_start == IF start_time # Absent
                    THEN SelectSeq(by_agent, LAMBDA r : r.timestamp >= start_time[1])
                    ELSE by_agent
        by_end == IF end_time # Absent
                  THEN SelectSeq(by_start, LAMBDA r : r.timestamp <= end_time[1])
                  ELSE by_start
        results == IF operation \notin {None, ""}
                   THEN SelectSeq(by_end, LAMBDA r : r.operation = operation)
                   ELSE by_end
        aliased == /\ agent_id \in {None, EmptyAgent} /\ start_time = Absent
                   /\ end_time = Absent /\ operation \in {None, ""}
        sorted == sort_timestamp_reverse(results)
    IN [log |-> IF aliased THEN sorted ELSE log,
        results |-> py_slice(sorted, offset, offset + limit)]

\* ------------------------------------------------- sqlite-backed adapter
\* ORDER BY timestamp DESC: every order of the rows with non-increasing
\* timestamps (SQL leaves the order of rows with equal timestamps open)
order_by_timestamp_desc(rows) ==
    LET n == Len(rows)
        orders == {p \in [1..n -> 1..n] :
                      /\ \A i, j \in 1..n : i # j => p[i] # p[j]
                      /\ \A i, j \in 1..n :
                            i < j => rows[p[i]].timestamp >= rows[p[j]].timestamp}
    IN {[i \in 1..n |-> rows[p[i]]] : p \in orders}

\* LIMIT ?: a negative limit is no limit
sql_limit(rows, limit) ==
    IF limit < 0 \/ limit >= Len(rows) THEN rows ELSE SubSeq(rows, 1, limit)

\* PostgresStorageAdapter.get_audit_log(agent_id, start_time, end_time, limit):
\* the lists the SELECT may return
postgres_get_audit_log(table, agent_id, start_time, end_time, limit) ==
    LET where(r) ==
            /\ agent_id \notin {None, EmptyAgent} => r.agent_id = agent_id
            /\ start_time # Absent => r.timestamp >= start_time[1]
            /\ end_time # Absent => r.timestamp <= end_time[1]
    IN {sql_limit(rows, limit) : rows \in order_by_timestamp_desc(SelectSeq(table, where))}

\* ------------------------------------------------- governed context builder
\* len(content.split()): the maximal runs of non-blank characters
whitespace_token_count(content) ==
    Cardinality({i \in 1..Len(content) :
                    content[i] # " " /\ (i = 1 \/ content[i - 1] = " ")})

\* per-memory overhead added to the word count
TOKEN_OVERHEAD == 10

RECURSIVE budget_loop_continue(_, _, _, _)
budget_loop_continue(mems, max_tokens, result, token_count) ==
    IF mems = <<>>
    THEN [memories |-> result, token_count |-> token_count]
    ELSE LET content_tokens == whitespace_token_count(Head(mems).content) + TOKEN_OVERHEAD
         IN IF token_count + content_tokens <= max_tokens
            THEN budget_loop_continue(Tail(mems), max_tokens, Append(result, Head(mems)),
                                      token_count + content_tokens)
            ELSE budget_loop_continue(Tail(mems), max_tokens, result, token_count)

\* the for loop of _enforce_token_budget
RECURSIVE budget_loop(_, _, _, _)
budget_loop(mems, max_tokens, result, token_count) ==
    IF mems = <<>>
    THEN [memories |-> result, token_count |-> token_count]
    ELSE LET content_tokens == whitespace_token_count(Head(mems).content) + TOKEN_OVERHEAD
         IN IF token_count + content_tokens <= max_tokens
            THEN budget_loop(Tail(mems), max_tokens, Append(result, Head(mems)),
                             token_count + content_tokens)
            ELSE [memories |-> result, token_count |-> token_count]

_enforce_token_budget(mems, max_tokens) == budget_loop(mems, max_tokens, <<>>, 0)

REQUEST_ID == "req"

\* GovernedContextBuilder._build_context.  The audit record query returned is
\* the object the adapter appended to its list, so the metadata the builder
\* adds afterwards shows in the log's last record.  appended is the record as
\* storage.query put it into the log, before the builder touched it, and
\* queried the list storage.query returned.
_build_context(states, mems, log, seq, t, agent_id, filters, max_items, max_tokens) ==
    IF agent_id = EmptyAgent
    THEN [raised |-> "PolicyEnforcementError", log |-> log, seq |-> seq,
          memories |-> <<>>, metadata |-> <<>>, storage_calls |-> <<>>,
          appended |-> <<>>, queried |-> <<>>]
    ELSE IF ~check_allowed(states, agent_id, OP_READ).allowed
    THEN [raised |-> "AgentDisabledError", log |-> log, seq |-> seq,
          memories |-> <<>>, metadata |-> <<>>, storage_calls |-> <<>>,
          appended |-> <<>>, queried |-> <<>>]
    ELSE LET q == adapter_query(mems, log, seq, t, filters, agent_id)
             b == _enforce_token_budget(q.results, max_tokens)
             truncated == Len(b.memories) < Len(q.results)
             md1 == IF truncated
                    THEN [truncated_by_token_budget |-> TRUE,
                          tokens_dropped |-> b.token_count - max_tokens] @@ q.audit.metadata
                    ELSE q.audit.metadata
             md2 == [requested_by_agent |-> agent_id, token_count |-> b.token_count,
                     request_id |-> REQUEST_ID] @@ md1
             audit == [q.audit EXCEPT !.metadata = md2]
             returned == py_slice_to(b.memories, max_items)
         IN [raised |-> None,
             log |-> [q.log EXCEPT ![Len(q.log)] = audit],
             seq |-> q.seq,
             memories |-> returned,
             metadata |-> [token_count |-> b.token_count,
                           returned_count |-> Len(returned),
                           filtered_count |-> q.audit.metadata.filtered_count,
                           total_examined |-> q.audit.metadata.total_records_examined,
                           policy_version |-> POLICY_VERSION,
                           audit_id |-> q.audit.audit_id],
             storage_calls |-> <<"query">>,
             appended |-> <<q.audit>>,
             queried |-> q.results]

\* ContextRequest defaults
DEFAULT_MAX_ITEMS == 50
DEFAULT_MAX_TOKENS == 4000

\* ------------------------------------------------------------ policy engine
TTL_PII_AGENT == 86400
TTL_PII_TENANT == 604800
TTL_NON_PII_AGENT == 2592000
TTL_NON_PII_TENANT == 7776000

_get_max_ttl(sensitivity, scope) ==
    IF sensitivity = PII
    THEN IF scope = SCOPE_AGENT THEN TTL_PII_AGENT ELSE TTL_PII_TENANT
    ELSE IF scope = SCOPE_AGENT THEN TTL_NON_PII_AGENT ELSE TTL_NON_PII_TENANT

evaluate_write_ceiling_exclusive(memory, agent_id) ==
    IF memory.agent_id # agent_id
    THEN [decision |-> "denied", reason |-> "agent_ownership_violation",
          metadata |-> [expected_agent |-> memory.agent_id,
                        requesting_agent |-> agent_id]]
    ELSE IF memory.policy.ttl_seconds <= 0
    THEN [decision |-> "denied", reason |-> "invalid_ttl",
          metadata |-> [ttl |-> memory.policy.ttl_seconds]]
    ELSE IF memory.policy.ttl_seconds
                >= _get_max_ttl(memory.policy.sensitivity, memory.policy.scope)
    THEN [decision |-> "denied", reason |-> "ttl_exceeds_policy",
          metadata |-> [ttl |-> memory.policy.ttl_seconds,
                        max_allowed |-> _get_max_ttl(memory.policy.sensitivity,
                                                     memory.policy.scope),
                        sensitivity |-> memory.policy.sensitivity,
                        scope |-> memory.policy.scope]]
    ELSE IF ~memory.policy.allow_write
    THEN [decision |-> "denied", reason |-> "write_not_allowed", metadata |-> <<>>]
    ELSE [decision |-> "allowed", reason |-> "all_policy_checks_passed",
          metadata |-> [ttl_seconds |-> memory.policy.ttl_seconds,
                        sensitivity |-> memory.policy.sensitivity,
                        scope |-> memory.policy.scope]]

\* PolicyEngine.evaluate_write
evaluate_write(memory, agent_id) ==
    IF memory.agent_id # agent_id
    THEN [decision |-> "denied", reason |-> "agent_ownership_violation",
          metadata |-> [expected_agent |-> memory.agent_id,
                        requesting_agent |-> agent_id]]
    ELSE IF memory.policy.ttl_seconds <= 0
    THEN [decision |-> "denied", reason |-> "invalid_ttl",
          metadata |-> [ttl |-> memory.policy.ttl_seconds]]
    ELSE IF memory.policy.ttl_seconds
                > _get_max_ttl(memory.policy.sensitivity, memory.policy.scope)
    THEN [decision |-> "denied", reason |-> "ttl_exceeds_policy",
          metadata |-> [ttl |-> memory.policy.ttl_seconds,
                        max_allowed |-> _get_max_ttl(memory.policy.sensitivity,
                                                     memory.policy.scope),
                        sensitivity |-> memory.policy.sensitivity,
                        scope |-> memory.policy.scope]]
    ELSE IF ~memory.policy.allow_write
    THEN [decision |-> "denied", reason |-> "write_not_allowed", metadata |-> <<>>]
    ELSE [decision |-> "allowed", reason |-> "all_policy_checks_passed",
          metadata |-> [ttl_seconds |-> memory.policy.ttl_seconds,
                        sensitivity |-> memory.policy.sensitivity,
                        scope |-> memory.policy.scope]]

\* ---------------------------------------------------------- HTTP handlers
HTTP_OK == 200
HTTP_BAD_REQUEST == 400
HTTP_FORBIDDEN == 403
HTTP_LOCKED == 423

\* ttl_seconds of MemoryWriteRequest when the request gives none
API_DEFAULT_TTL == 86400

\* request.ttl_seconds or 86400 (None and 0 are falsy)
api_ttl(ttl_seconds) ==
    IF ttl_seconds = Absent THEN API_DEFAULT_TTL
    ELSE IF ttl_seconds[1] = 0 THEN API_DEFAULT_TTL ELSE ttl_seconds[1]

write_status_no_locked(raised) ==
    CASE raised = None -> HTTP_OK
      [] raised = "PolicyEnforcementError" -> HTTP_FORBIDDEN
      [] OTHER -> HTTP_BAD_REQUEST

\* the status write_memory's except chain gives each exception
write_status(raised) ==
    CASE raised = None -> HTTP_OK
      [] raised = "AgentDisabledError" -> HTTP_LOCKED
      [] raised = "PolicyEnforcementError" -> HTTP_FORBIDDEN
      [] OTHER -> HTTP_BAD_REQUEST

\* POST /memory/write.  req: agent_id, content, memory_type, sensitivity,
\* scope, ttl_seconds.  memory_id is the uuid4 the new Memory gets.
write_memory(states, mems, log, seq, t, memory_id, req) ==
    LET ks == check_allowed(states, req.agent_id, OP_WRITE) IN
    IF ~ks.allowed
    THEN LET audit == AuditRecord(seq + 1, t, req.agent_id, "write", None, "denied",
                          "kill_switch_" \o ks.reason, "system",
                          [memory_type |-> req.memory_type])
         IN [raised |-> "AgentDisabledError", memories |-> mems,
             log |-> adapter_write_audit_record(log, audit), seq |-> seq + 1,
             stored |-> FALSE, audit |-> None,
             storage_calls |-> <<"write_audit_record">>]
    ELSE IF \/ req.memory_type \notin MemoryType
            \/ req.sensitivity \notin Sensitivity
            \/ req.scope \notin Scope
    THEN [raised |-> "ValueError", memories |-> mems, log |-> log, seq |-> seq,
          stored |-> FALSE, audit |-> None, storage_calls |-> <<>>]
    ELSE IF api_ttl(req.ttl_seconds) <= 0
    THEN \* MemoryPolicy.__post_init__
         [raised |-> "ValueError", memories |-> mems, log |-> log, seq |-> seq,
          stored |-> FALSE, audit |-> None, storage_calls |-> <<>>]
    ELSE LET policy == MemoryPolicy(req.memory_type, api_ttl(req.ttl_seconds),
                                    req.sensitivity, req.scope, TRUE)
             memory == Memory(memory_id, req.agent_id, req.content, policy, t)
             w == adapter_write(mems, log, seq, t, memory)
         IN [raised |-> w.raised, memories |-> w.memories, log |-> w.log,
             seq |-> w.seq, stored |-> (w.raised = None), audit |-> w.audit,
             storage_calls |-> <<"write">>]

\* POST /memory/query.  req: agent_id, memory_types, sensitivity, scope, limit;
\* a filter goes into the query only when its field is truthy
query_filters(req) ==
    (IF req.memory_types # Absent /\ req.memory_types[1] # <<>>
        THEN [memory_types |-> PyList(req.memory_types[1])] ELSE <<>>)
    @@ (IF req.sensitivity \notin {None, ""}
        THEN [sensitivity |-> PyStr(req.sensitivity)] ELSE <<>>)
    @@ (IF req.scope \notin {None, ""} THEN [scope |-> req.scope] ELSE <<>>)

query_memory(mems, log, seq, t, req) ==
    LET q == adapter_query(mems, log, seq, t, query_filters(req), req.agent_id)
    IN [status |-> HTTP_OK, log |-> q.log, seq |-> q.seq,
        memories |-> py_slice_to(q.results, req.limit),
        metadata |-> [total |-> Len(q.results),
                      filtered |-> q.audit.metadata.filtered_count,
                      audit_id |-> q.audit.audit_id],
        storage_calls |-> <<"query">>]

\* the status build_context's except chain gives each exception
build_status(raised) ==
    CASE raised = None -> HTTP_OK
      [] raised = "AgentDisabledError" -> HTTP_LOCKED
      [] raised = "PolicyEnforcementError" -> HTTP_FORBIDDEN
      [] OTHER -> HTTP_BAD_REQUEST

\* ------------------------------------------------------- LangGraph adapter
_calculate_ttl(sensitivity, scope) ==
    IF sensitivity = PII
    THEN IF scope = SCOPE_AGENT THEN TTL_PII_AGENT ELSE TTL_PII_TENANT
    ELSE IF scope = SCOPE_AGENT THEN TTL_NON_PII_AGENT ELSE TTL_NON_PII_TENANT

\* LangGraphMemoryAdapter.record_memory
record_memory(states, mems, log, seq, t, memory_id, agent_id, content, memory_type, sensitivity, scope) ==
    IF ~check_allowed(states, agent_id, OP_WRITE).allowed
    THEN [raised |-> "AgentDisabledError", memories |-> mems, log |-> log,
          seq |-> seq, audit |-> None, storage_calls |-> <<>>]
    ELSE IF \/ memory_type \notin MemoryType
            \/ sensitivity \notin Sensitivity
            \/ scope \notin Scope
    THEN [raised |-> "PolicyEnforcementError", memories |-> mems, log |-> log,
          seq |-> seq, audit |-> None, storage_calls |-> <<>>]
    ELSE LET policy == MemoryPolicy(memory_type, _calculate_ttl(sensitivity, scope),
                                    sensitivity, scope, TRUE)
             memory == Memory(memory_id, agent_id, content, policy, t)
             w == adapter_write(mems, log, seq, t, memory)
         IN [raised |-> w.raised, memories |-> w.memories, log |-> w.log,
             seq |-> w.seq, audit |-> w.audit, storage_calls |-> <<"write">>]

\* ------------------------------------------------------- LangChain adapter
\* bool(x) of a tuple: true unless the tuple is empty
py_bool(tuple) == Len(tuple) > 0

\* ttl_seconds of the MemoryPolicy add_message builds
LANGCHAIN_TTL == 86400

\* AMGChatMessageHistory.add_message: the condition is `not` applied to the
\* (allowed, reason) tuple check_allowed returns, not to its first element
add_message(states, mems, log, seq, t, memory_id, agent_id, content, memory_type, sensitivity, scope) ==
    LET ks == check_allowed(states, agent_id, OP_WRITE) IN
    IF ~py_bool(<<ks.allowed, ks.reason>>)
    THEN [memories |-> mems, log |-> log, seq |-> seq, storage_calls |-> <<>>]
    ELSE LET policy == MemoryPolicy(IF memory_type = LONG_TERM THEN LONG_TERM
                                                               ELSE SHORT_TERM,
                                    LANGCHAIN_TTL,
                                    IF sensitivity = PII THEN PII ELSE NON_PII,
                                    IF scope = SCOPE_TENANT THEN SCOPE_TENANT
                                                            ELSE SCOPE_AGENT,
                                    TRUE)
             w == adapter_write(mems, log, seq, t,
                                Memory(memory_id, agent_id, content, policy, t))
         IN [memories |-> w.memories, log |-> w.log, seq |-> w.seq,
             storage_calls |-> <<"write">>]

\* ------------------------------------------------------------ call results
\* the shape of ret; every call fills the fields it has
NoRet ==
    [op |-> "init", agent |-> EmptyAgent, arg |-> None, outcome |-> None,
     status |-> 0, allowed |-> TRUE, reason |-> None, stored |-> FALSE,
     memories |-> <<>>, audits |-> <<>>, storage_calls |-> <<>>,
     state_at_call |-> STATE_ENABLED, since_disable |-> FALSE,
     at |-> 0, audit_before |-> 0, ks_audit_before |-> 0,
     metadata |-> <<>>, req |-> <<>>, queried |-> <<>>, pg |-> <<>>]

\* the fields every call records: who called what and when, in which
\* kill-switch state, and how long the two audit logs were
Called(op, agent_id, arg) ==
    [NoRet EXCEPT !.op = op, !.agent = agent_id, !.arg = arg,
                  !.state_at_call = get_state(agent_states, agent_id),
                  !.since_disable = (agent_id \in disabled_since),
                  !.at = now,
                  !.audit_before = Len(audit_log),
                  !.ks_audit_before = Len(ks_audit_log)]

AdapterOps == {"write", "read", "query", "delete"}
NoCalls == [o \in AdapterOps |-> 0]
\* the adapter methods among a handler's storage calls, counted
Counted(c, storage_calls) ==
    [o \in AdapterOps |->
        c[o] + Cardinality({i \in 1..Len(storage_calls) : storage_calls[i] = o})]

\* str(uuid4()) of the n-th Memory
MemId(n) == "m" \o ToString(n)

Init ==
    /\ agent_states = <<>>
    /\ ks_audit_log = <<>>
    /\ memories = <<>>
    /\ audit_log = <<>>
    /\ now = 0
    /\ audit_seq = 0
    /\ mem_seq = 0
    /\ ret = NoRet
    /\ disabled_since = {}
    /\ calls = NoCalls
    /\ pending = {}
    /\ pg = [memory |-> <<>>, audit_log |-> <<>>]

\* ------------------------------------------------- the clock
Tick ==
    /\ now < MaxNow
    /\ now' = now + 1
    /\ UNCHANGED <<pending, pg, agent_states, ks_audit_log, memories, audit_log,
                   audit_seq,
                   mem_seq, ret, disabled_since, calls>>

\* ------------------------------------------------- kill switch, called directly
KsReason == "incident"
KsActor == "admin"

CheckAllowed ==
    \E agent_id \in Agents, operation \in OperationType :
        LET r == check_allowed(agent_states, agent_id, operation) IN
        /\ ret' = [Called("check_allowed", agent_id, operation) EXCEPT
                      !.allowed = r.allowed, !.reason = r.reason]
        /\ UNCHANGED <<pending, pg, ks_vars, store_vars, now, audit_seq>>

Disable ==
    \E agent_id \in Agents :
        LET r == ks_disable(agent_states, ks_audit_log, audit_seq, now, agent_id,
                            KsReason, KsActor) IN
        /\ Len(ks_audit_log) < MaxKsAudit
        /\ agent_states' = r.states
        /\ ks_audit_log' = r.log
        /\ audit_seq' = r.seq
        /\ disabled_since' = disabled_since \cup {agent_id}
        /\ ret' = [Called("disable", agent_id, None) EXCEPT !.audits = <<r.audit>>]
        /\ UNCHANGED <<pending, pg, store_vars, now>>

FreezeWrites ==
    \E agent_id \in Agents :
        LET r == ks_freeze_writes(agent_states, ks_audit_log, audit_seq, now, agent_id,
                                  KsReason, KsActor) IN
        /\ Len(ks_audit_log) < MaxKsAudit
        /\ agent_states' = r.states
        /\ ks_audit_log' = r.log
        /\ audit_seq' = r.seq
        /\ ret' = [Called("freeze_writes", agent_id, None) EXCEPT !.audits = <<r.audit>>]
        /\ UNCHANGED <<pending, pg, disabled_since, store_vars, now>>

Enable ==
    \E agent_id \in Agents :
        LET r == ks_enable(agent_states, ks_audit_log, audit_seq, now, agent_id, KsActor) IN
        /\ Len(ks_audit_log) < MaxKsAudit
        /\ agent_states' = r.states
        /\ ks_audit_log' = r.log
        /\ audit_seq' = r.seq
        /\ disabled_since' = disabled_since \ {agent_id}
        /\ ret' = [Called("enable", agent_id, None) EXCEPT !.audits = <<r.audit>>]
        /\ UNCHANGED <<pending, pg, store_vars, now>>

GlobalShutdown ==
    LET r == ks_global_shutdown(agent_states, ks_audit_log, audit_seq, now,
                                KsReason, KsActor) IN
    /\ Len(r.log) <= MaxKsAudit
    /\ agent_states' = r.states
    /\ ks_audit_log' = r.log
    /\ audit_seq' = r.seq
    /\ disabled_since' = disabled_since \cup {r.records[i].agent_id : i \in 1..Len(r.records)}
    /\ ret' = [Called("global_shutdown", EmptyAgent, None) EXCEPT !.audits = r.records]
    /\ UNCHANGED <<pending, pg, store_vars, now>>

KsGetAuditLog ==
    \E agent_id \in Agents \cup {None} :
        /\ ret' = [Called("ks.get_audit_log", agent_id, None) EXCEPT
                      !.audits = ks_get_audit_log(ks_audit_log, agent_id)]
        /\ UNCHANGED <<pending, pg, ks_vars, store_vars, now, audit_seq>>

\* the kill switch alone
NextKS ==
    \/ CheckAllowed \/ Disable \/ FreezeWrites \/ Enable \/ GlobalShutdown
    \/ KsGetAuditLog
SpecKS == Init /\ [][NextKS]_vars

\* ------------------------------------------------- storage adapter, called directly
CONTENT == <<"w">>

\* adapter.write(memory, {...})
AdapterWrite(memory) ==
    LET w == adapter_write(memories, audit_log, audit_seq, now, memory) IN
    /\ Len(w.log) <= MaxAudit
    /\ memories' = w.memories
    /\ audit_log' = w.log
    /\ audit_seq' = w.seq
    /\ mem_seq' = IF w.raised = None /\ memory.memory_id = MemId(mem_seq + 1)
                  THEN mem_seq + 1 ELSE mem_seq
    /\ calls' = IF w.raised = None THEN Counted(calls, <<"write">>) ELSE calls
    /\ ret' = [Called("adapter.write", memory.agent_id, memory.memory_id) EXCEPT
                  !.outcome = w.raised, !.stored = (w.raised = None),
                  !.audits = IF w.raised = None THEN <<w.audit>> ELSE <<>>,
                  !.storage_calls = <<"write">>, !.req = memory]
    /\ UNCHANGED <<pending, pg, ks_vars, now>>

\* adapter.read(memory_id, agent_id, policy_check)
AdapterRead(memory_id, agent_id) ==
    LET r == adapter_read(memories, audit_log, audit_seq, now, memory_id, agent_id) IN
    /\ Len(r.log) <= MaxAudit
    /\ audit_log' = r.log
    /\ audit_seq' = r.seq
    /\ calls' = Counted(calls, <<"read">>)
    /\ ret' = [Called("adapter.read", agent_id, memory_id) EXCEPT
                  !.memories = r.memory, !.audits = <<r.audit>>,
                  !.allowed = (r.audit.decision = "allowed"),
                  !.reason = r.audit.reason,
                  !.storage_calls = <<"read">>]
    /\ UNCHANGED <<pending, pg, ks_vars, memories, mem_seq, now>>

\* adapter.query(filters, agent_id, policy_check)
AdapterQuery(filters, agent_id) ==
    LET q == adapter_query(memories, audit_log, audit_seq, now, filters, agent_id) IN
    /\ Len(q.log) <= MaxAudit
    /\ audit_log' = q.log
    /\ audit_seq' = q.seq
    /\ calls' = Counted(calls, <<"query">>)
    /\ ret' = [Called("adapter.query", agent_id, None) EXCEPT
                  !.memories = q.results, !.audits = <<q.audit>>,
                  !.metadata = q.audit.metadata,
                  !.storage_calls = <<"query">>, !.req = filters]
    /\ UNCHANGED <<pending, pg, ks_vars, memories, mem_seq, now>>

\* adapter.delete(memory_id, actor_id, reason)
AdapterDelete(memory_id) ==
    LET d == adapter_delete(memories, audit_log, audit_seq, now, memory_id, KsActor,
                            "cleanup") IN
    /\ Len(d.log) <= MaxAudit
    /\ memories' = d.memories
    /\ audit_log' = d.log
    /\ audit_seq' = d.seq
    /\ calls' = IF d.raised = None THEN Counted(calls, <<"delete">>) ELSE calls
    /\ ret' = [Called("adapter.delete", KsActor, memory_id) EXCEPT
                  !.outcome = d.raised,
                  !.audits = IF d.raised = None THEN <<d.audit>> ELSE <<>>,
                  !.storage_calls = <<"delete">>]
    /\ UNCHANGED <<pending, pg, ks_vars, mem_seq, now>>

BuildSpendingOneBudget(agent_id, filters, max_items, max_tokens) ==
    LET b == _build_context(agent_states, memories, audit_log, audit_seq, now,
                            agent_id, filters, max_items,
                            max_tokens - TOKEN_OVERHEAD * Len(audit_log)) IN
    /\ Len(b.log) <= MaxAudit
    /\ audit_log' = b.log
    /\ audit_seq' = b.seq
    /\ calls' = Counted(calls, b.storage_calls)
    /\ ret' = [Called("build", agent_id, None) EXCEPT
                  !.outcome = b.raised, !.status = build_status(b.raised),
                  !.memories = b.memories, !.metadata = b.metadata,
                  !.audits = b.appended,
                  !.storage_calls = b.storage_calls, !.queried = b.queried,
                  !.req = [filters |-> filters, max_items |-> max_items,
                           max_tokens |-> max_tokens]]
    /\ UNCHANGED <<pending, pg, ks_vars, memories, mem_seq, now>>

\* builder.build(ContextRequest(...)), and POST /context/build around it:
\* outcome is what build raises, status what the endpoint answers
Build(agent_id, filters, max_items, max_tokens) ==
    LET b == _build_context(agent_states, memories, audit_log, audit_seq, now,
                            agent_id, filters, max_items, max_tokens) IN
    /\ Len(b.log) <= MaxAudit
    /\ audit_log' = b.log
    /\ audit_seq' = b.seq
    /\ calls' = Counted(calls, b.storage_calls)
    /\ ret' = [Called("build", agent_id, None) EXCEPT
                  !.outcome = b.raised, !.status = build_status(b.raised),
                  !.memories = b.memories, !.metadata = b.metadata,
                  !.audits = b.appended,
                  !.storage_calls = b.storage_calls, !.queried = b.queried,
                  !.req = [filters |-> filters, max_items |-> max_items,
                           max_tokens |-> max_tokens]]
    /\ UNCHANGED <<pending, pg, ks_vars, memories, mem_seq, now>>

\* ------------------------------------------------- adapter-level runs
\* memories the callers write: every agent, both scopes, ttl_seconds 1; and
\* the two a write must refuse (no agent_id; ttl_seconds set to 0 after the
\* MemoryPolicy was built)
StoreMemories ==
    {Memory(MemId(mem_seq + 1), agent_id, CONTENT,
            MemoryPolicy(LONG_TERM, 1, NON_PII, scope, TRUE), now) :
        agent_id \in Agents, scope \in Scope}
BadMemories ==
    {Memory(MemId(mem_seq + 1), EmptyAgent, CONTENT,
            MemoryPolicy(LONG_TERM, 1, NON_PII, SCOPE_AGENT, TRUE), now),
     [Memory(MemId(mem_seq + 1), "a", CONTENT,
             MemoryPolicy(LONG_TERM, 1, NON_PII, SCOPE_AGENT, TRUE), now)
      EXCEPT !.policy.ttl_seconds = 0]}

StoreWrite ==
    /\ mem_seq < MaxMem
    /\ \E memory \in StoreMemories \cup BadMemories : AdapterWrite(memory)

StoreRead ==
    \E n \in 1..(mem_seq + 1), agent_id \in Agents : AdapterRead(MemId(n), agent_id)

StoreQuery ==
    \E agent_id \in Agents : AdapterQuery(NoFilters, agent_id)

\* delete of an id written before (stored still, or deleted already) and of
\* one never written
StoreDelete ==
    \E n \in 1..(mem_seq + 1) : AdapterDelete(MemId(n))

StoreBuild ==
    \E agent_id \in Agents :
        Build(agent_id, NoFilters, DEFAULT_MAX_ITEMS, DEFAULT_MAX_TOKENS)

\* the storage adapter and the builder over it; the clock stands still and
\* the kill switch is untouched
NextStore == StoreWrite \/ StoreRead \/ StoreQuery \/ StoreDelete \/ StoreBuild
SpecStore == Init /\ [][NextStore]_vars

\* ------------------------------------------------- runs with a moving clock
\* agent a writes, with ttl_seconds 1: a readable memory in either scope and
\* an agent-scoped one with allow_read off; a and b read what was written and
\* one id that was not
TtlPolicies ==
    {MemoryPolicy(LONG_TERM, 1, NON_PII, SCOPE_AGENT, TRUE),
     MemoryPolicy(LONG_TERM, 1, NON_PII, SCOPE_TENANT, TRUE),
     MemoryPolicy(LONG_TERM, 1, NON_PII, SCOPE_AGENT, FALSE)}
TtlMemories ==
    {Memory(MemId(mem_seq + 1), "a", CONTENT, policy, now) : policy \in TtlPolicies}

TtlWrite ==
    /\ mem_seq < MaxMem
    /\ \E memory \in TtlMemories : AdapterWrite(memory)

TtlRead ==
    \E n \in 1..(mem_seq + 1), agent_id \in Agents : AdapterRead(MemId(n), agent_id)

TtlQuery ==
    \E agent_id \in Agents : AdapterQuery(NoFilters, agent_id)

TtlBuild ==
    \E agent_id \in Agents :
        Build(agent_id, NoFilters, DEFAULT_MAX_ITEMS, DEFAULT_MAX_TOKENS)

NextTtl == Tick \/ TtlWrite \/ TtlRead \/ TtlQuery \/ TtlBuild
SpecTtl == Init /\ [][NextTtl]_vars

\* ------------------------------------------------- the HTTP API and LangGraph
\* The handlers get storage and kill switch injected; the storage here is the
\* in-memory adapter.  Every request is taken to carry a valid API key.

\* POST /memory/write
ApiWrite(req) ==
    LET w == write_memory(agent_states, memories, audit_log, audit_seq, now,
                          MemId(mem_seq + 1), req) IN
    /\ Len(w.log) <= MaxAudit
    /\ w.stored => mem_seq < MaxMem
    /\ memories' = w.memories
    /\ audit_log' = w.log
    /\ audit_seq' = w.seq
    /\ mem_seq' = IF w.stored THEN mem_seq + 1 ELSE mem_seq
    /\ calls' = IF w.raised = None THEN Counted(calls, w.storage_calls) ELSE calls
    /\ ret' = [Called("POST /memory/write", req.agent_id, MemId(mem_seq + 1)) EXCEPT
                  !.outcome = w.raised, !.status = write_status(w.raised),
                  !.stored = w.stored,
                  !.audits = IF w.raised = None THEN <<w.audit>> ELSE <<>>,
                  !.storage_calls = w.storage_calls, !.req = req]
    /\ UNCHANGED <<pending, pg, ks_vars, now>>

\* POST /memory/query
ApiQuery(req) ==
    LET q == query_memory(memories, audit_log, audit_seq, now, req) IN
    /\ Len(q.log) <= MaxAudit
    /\ audit_log' = q.log
    /\ audit_seq' = q.seq
    /\ calls' = Counted(calls, q.storage_calls)
    /\ ret' = [Called("POST /memory/query", req.agent_id, None) EXCEPT
                  !.status = q.status, !.memories = q.memories,
                  !.metadata = q.metadata, !.storage_calls = q.storage_calls,
                  !.req = req]
    /\ UNCHANGED <<pending, pg, ks_vars, memories, mem_seq, now>>

\* LangGraphMemoryAdapter.record_memory
RecordMemory(agent_id, sensitivity, scope) ==
    LET w == record_memory(agent_states, memories, audit_log, audit_seq, now,
                           MemId(mem_seq + 1), agent_id, CONTENT, LONG_TERM,
                           sensitivity, scope) IN
    /\ Len(w.log) <= MaxAudit
    /\ w.raised = None => mem_seq < MaxMem
    /\ memories' = w.memories
    /\ audit_log' = w.log
    /\ audit_seq' = w.seq
    /\ mem_seq' = IF w.raised = None THEN mem_seq + 1 ELSE mem_seq
    /\ calls' = IF w.raised = None THEN Counted(calls, w.storage_calls) ELSE calls
    /\ ret' = [Called("record_memory", agent_id, MemId(mem_seq + 1)) EXCEPT
                  !.outcome = w.raised, !.stored = (w.raised = None),
                  !.audits = IF w.raised = None THEN <<w.audit>> ELSE <<>>,
                  !.storage_calls = w.storage_calls]
    /\ UNCHANGED <<pending, pg, ks_vars, now>>

\* POST /agent/{agent_id}/disable: kill_switch.disable, then
\* storage.write_audit_record(audit)
ApiDisable(agent_id) ==
    LET r == ks_disable(agent_states, ks_audit_log, audit_seq, now, agent_id,
                        KsReason, KsActor) IN
    /\ Len(audit_log) < MaxAudit
    /\ agent_states' = r.states
    /\ ks_audit_log' = r.log
    /\ audit_seq' = r.seq
    /\ disabled_since' = disabled_since \cup {agent_id}
    /\ audit_log' = adapter_write_audit_record(audit_log, r.audit)
    /\ ret' = [Called("POST /agent/disable", agent_id, None) EXCEPT
                  !.status = HTTP_OK, !.audits = <<r.audit>>,
                  !.storage_calls = <<"write_audit_record">>]
    /\ UNCHANGED <<pending, pg, memories, mem_seq, calls, now>>

\* POST /agent/{agent_id}/freeze
ApiFreeze(agent_id) ==
    LET r == ks_freeze_writes(agent_states, ks_audit_log, audit_seq, now, agent_id,
                              KsReason, KsActor) IN
    /\ Len(audit_log) < MaxAudit
    /\ agent_states' = r.states
    /\ ks_audit_log' = r.log
    /\ audit_seq' = r.seq
    /\ audit_log' = adapter_write_audit_record(audit_log, r.audit)
    /\ ret' = [Called("POST /agent/freeze", agent_id, None) EXCEPT
                  !.status = HTTP_OK, !.audits = <<r.audit>>,
                  !.storage_calls = <<"write_audit_record">>]
    /\ UNCHANGED <<pending, pg, disabled_since, memories, mem_seq, calls, now>>

\* POST /agent/{agent_id}/enable: the handler calls
\* kill_switch.enable(agent_id=, reason=, actor_id=), enable takes no reason,
\* the TypeError is answered 400 and nothing changes
ApiEnable(agent_id) ==
    /\ ret' = [Called("POST /agent/enable", agent_id, None) EXCEPT
                  !.outcome = "TypeError", !.status = HTTP_BAD_REQUEST]
    /\ UNCHANGED <<pending, pg, ks_vars, store_vars, now, audit_seq>>

ApiAgents == {"a"}
\* a ttl_seconds one second over the lowest ceiling (pii, agent scope)
ApiTtls == {Absent, Given(TTL_PII_AGENT + 1)}
WriteRequests ==
    [agent_id : ApiAgents, content : {CONTENT}, memory_type : {LONG_TERM},
     sensitivity : Sensitivity, scope : Scope, ttl_seconds : ApiTtls]
QueryRequests ==
    [agent_id : ApiAgents, memory_types : {Absent}, sensitivity : {None},
     scope : {None}, limit : {DEFAULT_MAX_ITEMS}]

PostWrite == \E req \in WriteRequests : ApiWrite(req)
PostQuery == \E req \in QueryRequests : ApiQuery(req)
PostBuild ==
    \E agent_id \in ApiAgents \cup {EmptyAgent} :
        Build(agent_id, NoFilters, DEFAULT_MAX_ITEMS, DEFAULT_MAX_TOKENS)
LangGraphRecord == \E agent_id \in ApiAgents : RecordMemory(agent_id, NON_PII, SCOPE_AGENT)
PostDisable == \E agent_id \in ApiAgents : ApiDisable(agent_id)
PostFreeze == \E agent_id \in ApiAgents : ApiFreeze(agent_id)
PostEnable == \E agent_id \in ApiAgents : ApiEnable(agent_id)

NextApi ==
    \/ PostWrite \/ PostQuery \/ PostBuild \/ LangGraphRecord
    \/ PostDisable \/ PostFreeze \/ PostEnable
SpecApi == Init /\ [][NextApi]_vars

\* ------------------------------------------------- kill switch and adapter
\* the server's kill switch next to its storage adapter: the endpoints, which
\* pass the transition's record on to storage.write_audit_record, and the
\* KillSwitch methods called on the same object
AdminDisable == Len(ks_audit_log) < MaxKsAudit /\ PostDisable
AdminFreeze == Len(ks_audit_log) < MaxKsAudit /\ PostFreeze

NextAdmin ==
    \/ AdminDisable \/ AdminFreeze \/ PostEnable
    \/ Disable \/ FreezeWrites \/ Enable \/ GlobalShutdown
SpecAdmin == Init /\ [][NextAdmin]_vars

\* ------------------------------------------------- the adapter's audit log
\* adapter.get_audit_log(agent_id, start_time, end_time, operation, limit, offset)
AdapterGetAuditLog(agent_id, start_time, end_time, operation, limit, offset) ==
    LET g == adapter_get_audit_log(audit_log, agent_id, start_time, end_time,
                                   operation, limit, offset) IN
    /\ audit_log' = g.log
    /\ ret' = [Called("adapter.get_audit_log", agent_id, None) EXCEPT
                  !.audits = g.results,
                  !.req = [agent_id |-> agent_id, start_time |-> start_time,
                           end_time |-> end_time, operation |-> operation,
                           limit |-> limit, offset |-> offset]]
    /\ UNCHANGED <<pending, pg, ks_vars, memories, mem_seq, now, audit_seq,
                   disabled_since, calls>>

\* the same call on a PostgresStorageAdapter whose audit_log table holds the
\* rows of audit_log: its get_audit_log has no operation and no offset
\* parameter, and Python raises TypeError for a keyword it does not know
PostgresGetAuditLog(agent_id, start_time, end_time, operation, limit) ==
    /\ \E results \in postgres_get_audit_log(audit_log, agent_id, start_time,
                                              end_time, limit) :
          ret' = [Called("postgres.get_audit_log", agent_id, None) EXCEPT
                     !.outcome = IF operation # None THEN "TypeError" ELSE None,
                     !.audits = IF operation # None THEN <<>> ELSE results,
                     !.req = [agent_id |-> agent_id, start_time |-> start_time,
                              end_time |-> end_time, operation |-> operation,
                              limit |-> limit, offset |-> 0]]
    /\ UNCHANGED <<pending, pg, ks_vars, store_vars, now, audit_seq>>

GET_AUDIT_LOG_LIMIT == 100

AuditMemories ==
    {Memory(MemId(mem_seq + 1), agent_id, CONTENT,
            MemoryPolicy(LONG_TERM, 1, NON_PII, SCOPE_AGENT, TRUE), now) :
        agent_id \in Agents}

AuditWrite ==
    /\ mem_seq < MaxMem
    /\ \E memory \in AuditMemories : AdapterWrite(memory)

AuditRead == AdapterRead(MemId(1), "a")

\* adapter.get_audit_log(): no filter, the default limit and offset
AuditGetAuditLog ==
    AdapterGetAuditLog(None, Absent, Absent, None, GET_AUDIT_LOG_LIMIT, 0)

\* one filter at a time, and <<limit, offset>> around a short log
AuditGetAuditLogFiltered ==
    \E agent_id \in {None, "a"}, start_time \in {Absent, Given(1)},
       end_time \in {Absent, Given(0)}, operation \in {None, "write"},
       page \in {<<-1, 0>>, <<1, 0>>, <<GET_AUDIT_LOG_LIMIT, 1>>,
                 <<GET_AUDIT_LOG_LIMIT, 0>>} :
        /\ Cardinality({i \in 1..4 : <<agent_id # None, start_time # Absent,
                                        end_time # Absent, operation # None>>[i]}) <= 1
        /\ AdapterGetAuditLog(agent_id, start_time, end_time, operation, page[1], page[2])

AuditPostgresGetAuditLog ==
    \E agent_id \in {None, "a"}, operation \in {None, "write"},
       limit \in {1, GET_AUDIT_LOG_LIMIT} :
        PostgresGetAuditLog(agent_id, Absent, Absent, operation, limit)

NextAudit ==
    \/ Tick \/ AuditWrite \/ AuditRead \/ AuditGetAuditLog \/ AuditGetAuditLogFiltered
    \/ AuditPostgresGetAuditLog
SpecAudit == Init /\ [][NextAudit]_vars

\* ------------------------------------------------- requests running concurrently
\* The endpoints are plain functions, which the server runs on worker threads.
\* disable_agent calls kill_switch.disable, which stamps the record, and then
\* storage.write_audit_record; another request can run between the two calls.
DisableAgentTransition(agent_id) ==
    LET r == ks_disable(agent_states, ks_audit_log, audit_seq, now, agent_id,
                        KsReason, KsActor) IN
    /\ Len(ks_audit_log) < MaxKsAudit
    /\ agent_states' = r.states
    /\ ks_audit_log' = r.log
    /\ audit_seq' = r.seq
    /\ disabled_since' = disabled_since \cup {agent_id}
    /\ ret' = [Called("disable_agent: kill_switch.disable", agent_id, None) EXCEPT
                  !.audits = <<r.audit>>]
    /\ UNCHANGED <<pending, pg, store_vars, now>>

\* the second call of a disable_agent that has made its transition
DisableAgentInject(record) ==
    /\ Len(audit_log) < MaxAudit
    /\ \A k \in 1..Len(audit_log) : audit_log[k].audit_id # record.audit_id
    /\ audit_log' = adapter_write_audit_record(audit_log, record)
    /\ ret' = [Called("disable_agent: write_audit_record", record.agent_id, None) EXCEPT
                  !.status = HTTP_OK, !.audits = <<record>>,
                  !.storage_calls = <<"write_audit_record">>]
    /\ UNCHANGED <<pending, pg, ks_vars, memories, mem_seq, calls, now, audit_seq>>

ThreadDisable == DisableAgentTransition("a")
ThreadInject ==
    \E i \in 1..Len(ks_audit_log) : DisableAgentInject(ks_audit_log[i].value)
ThreadWrite ==
    /\ mem_seq < MaxMem
    /\ AdapterWrite(Memory(MemId(mem_seq + 1), "b", CONTENT,
                           MemoryPolicy(LONG_TERM, 1, NON_PII, SCOPE_AGENT, TRUE), now))

NextThreads == Tick \/ ThreadDisable \/ ThreadInject \/ ThreadWrite
SpecThreads == Init /\ [][NextThreads]_vars

\* write_memory calls kill_switch.check_allowed and, further down,
\* storage.write, with no lock around the two; another request can run between
\* them.  A request whose check denies finishes within its first step.
WriteMemoryCheck(req) ==
    IF check_allowed(agent_states, req.agent_id, OP_WRITE).allowed
    THEN /\ pending = {}
         /\ pending' = {[req |-> req, states |-> agent_states]}
         /\ ret' = Called("write_memory: check_allowed", req.agent_id, None)
         /\ UNCHANGED <<pg, ks_vars, store_vars, now, audit_seq>>
    ELSE ApiWrite(req)

\* the rest of a write_memory whose check, made on p.states, allowed the write
WriteMemoryStore(p) ==
    LET w == write_memory(p.states, memories, audit_log, audit_seq, now,
                          MemId(mem_seq + 1), p.req) IN
    /\ Len(w.log) <= MaxAudit
    /\ w.stored => mem_seq < MaxMem
    /\ pending' = pending \ {p}
    /\ memories' = w.memories
    /\ audit_log' = w.log
    /\ audit_seq' = w.seq
    /\ mem_seq' = IF w.stored THEN mem_seq + 1 ELSE mem_seq
    /\ calls' = IF w.raised = None THEN Counted(calls, w.storage_calls) ELSE calls
    /\ ret' = [Called("write_memory: storage.write", p.req.agent_id,
                      MemId(mem_seq + 1)) EXCEPT
                  !.outcome = w.raised, !.status = write_status(w.raised),
                  !.stored = w.stored,
                  !.audits = IF w.raised = None THEN <<w.audit>> ELSE <<>>,
                  !.storage_calls = w.storage_calls, !.req = p.req]
    /\ UNCHANGED <<pg, ks_vars, now>>

NextRace ==
    \/ \E req \in {r \in WriteRequests : r.ttl_seconds = Absent /\ r.scope = SCOPE_AGENT} :
           WriteMemoryCheck(req)
    \/ \E p \in pending : WriteMemoryStore(p)
    \/ AdminDisable \/ AdminFreeze \/ Enable
SpecRace == Init /\ [][NextRace]_vars

\* ------------------------------------------------- the two adapters side by side
\* The same call goes to an InMemoryStorageAdapter and to a
\* PostgresStorageAdapter (sqlite3 underneath).  ret records what the in-memory
\* adapter answered and, in ret.pg, what the sqlite-backed one answered.
PgAnswer(raised, audit, found) ==
    [raised |-> raised, decision |-> IF raised = None THEN audit.decision ELSE None,
     reason |-> IF raised = None THEN audit.reason ELSE None,
     memories |-> found,
     metadata |-> IF raised = None THEN audit.metadata ELSE <<>>]

\* PostgresStorageAdapter._row_to_memory: allow_read and allow_write are
\* stored as 0 or 1, expires_at is read back from its column
_row_to_memory(row) ==
    [memory_id |-> row.memory_id, agent_id |-> row.agent_id, content |-> row.content,
     policy |-> [memory_type |-> row.memory_type, ttl_seconds |-> row.ttl_seconds,
                 sensitivity |-> row.sensitivity, scope |-> row.scope,
                 allow_read |-> row.allow_read # 0, allow_write |-> row.allow_write # 0],
     created_at |-> row.created_at, expires_at |-> row.expires_at]

\* write(memory, {}): the INSERT fails on a memory_id the table holds, a
\* soft-deleted row included (memory_id is the PRIMARY KEY), and the
\* sqlite3.IntegrityError is raised again as StorageError
SideWrite(memory) ==
    LET w == adapter_write(memories, audit_log, audit_seq, now, memory)
        raised == IF memory.agent_id = EmptyAgent \/ memory.policy.ttl_seconds <= 0
                  THEN "PolicyEnforcementError"
                  ELSE IF \E i \in 1..Len(pg.memory) :
                              pg.memory[i].memory_id = memory.memory_id
                  THEN "StorageError" ELSE None
        row == [memory_id |-> memory.memory_id, agent_id |-> memory.agent_id,
                content |-> memory.content, memory_type |-> memory.policy.memory_type,
                sensitivity |-> memory.policy.sensitivity, scope |-> memory.policy.scope,
                ttl_seconds |-> memory.policy.ttl_seconds,
                allow_read |-> IF memory.policy.allow_read THEN 1 ELSE 0,
                allow_write |-> IF memory.policy.allow_write THEN 1 ELSE 0,
                created_at |-> memory.created_at, expires_at |-> memory.expires_at,
                is_deleted |-> 0]
        audit == adapter_audit(w.seq, now, memory.agent_id, "write", memory.memory_id,
                     "allowed", "policy_enforcement_passed", memory.agent_id,
                     [memory_type |-> memory.policy.memory_type,
                      sensitivity |-> memory.policy.sensitivity,
                      scope |-> memory.policy.scope,
                      ttl_seconds |-> memory.policy.ttl_seconds])
    IN /\ Len(w.log) <= MaxAudit
       /\ memories' = w.memories
       /\ audit_log' = w.log
       /\ pg' = IF raised = None
                THEN [memory |-> Append(pg.memory, row),
                      audit_log |-> Append(pg.audit_log, audit)]
                ELSE pg
       /\ audit_seq' = IF raised = None THEN w.seq + 1 ELSE w.seq
       /\ calls' = IF w.raised = None THEN Counted(calls, <<"write">>) ELSE calls
       /\ ret' = [Called("write", memory.agent_id, memory.memory_id) EXCEPT
                     !.outcome = w.raised, !.stored = (w.raised = None),
                     !.audits = IF w.raised = None THEN <<w.audit>> ELSE <<>>,
                     !.storage_calls = <<"write">>, !.req = memory,
                     !.pg = PgAnswer(raised, audit, <<>>)]
       /\ UNCHANGED <<pending, ks_vars, mem_seq, now>>

\* read(memory_id, agent_id, policy_check)
SideRead(memory_id, agent_id) ==
    LET r == adapter_read(memories, audit_log, audit_seq, now, memory_id, agent_id)
        rows == SelectSeq(pg.memory,
                    LAMBDA row : row.memory_id = memory_id /\ row.is_deleted = 0)
        reason == IF rows = <<>> THEN "memory_not_found"
                  ELSE read_denial(_row_to_memory(rows[1]), agent_id, now)
        audit == IF reason # None
                 THEN _create_denied_audit(r.seq, now, agent_id, "read", memory_id, reason)
                 ELSE adapter_audit(r.seq, now, agent_id, "read", memory_id, "allowed",
                          "policy_checks_passed", agent_id,
                          [scope |-> rows[1].scope])
    IN /\ Len(r.log) <= MaxAudit
       /\ audit_log' = r.log
       /\ pg' = [pg EXCEPT !.audit_log = Append(@, audit)]
       /\ audit_seq' = r.seq + 1
       /\ calls' = Counted(calls, <<"read">>)
       /\ ret' = [Called("read", agent_id, memory_id) EXCEPT
                     !.memories = r.memory, !.audits = <<r.audit>>,
                     !.storage_calls = <<"read">>,
                     !.pg = PgAnswer(None, audit,
                                IF reason # None THEN <<>>
                                ELSE <<_row_to_memory(rows[1])>>)]
       /\ UNCHANGED <<pending, ks_vars, memories, mem_seq, now>>

\* delete(memory_id, actor_id, reason): UPDATE memory SET is_deleted = 1
SideDelete(memory_id) ==
    LET d == adapter_delete(memories, audit_log, audit_seq, now, memory_id, KsActor,
                            "cleanup")
        live == {i \in 1..Len(pg.memory) :
                    pg.memory[i].memory_id = memory_id /\ pg.memory[i].is_deleted = 0}
        raised == IF live = {} THEN "MemoryNotFoundError" ELSE None
        audit == adapter_audit(d.seq, now, pg.memory[CHOOSE i \in live : TRUE].agent_id,
                     "delete", memory_id, "allowed", "cleanup", KsActor,
                     [deletion_reason |-> "cleanup"])
    IN /\ Len(d.log) <= MaxAudit
       /\ memories' = d.memories
       /\ audit_log' = d.log
       /\ pg' = IF raised = None
                THEN [memory |-> [i \in 1..Len(pg.memory) |->
                                     IF i \in live
                                     THEN [pg.memory[i] EXCEPT !.is_deleted = 1]
                                     ELSE pg.memory[i]],
                      audit_log |-> Append(pg.audit_log, audit)]
                ELSE pg
       /\ audit_seq' = IF raised = None THEN d.seq + 1 ELSE d.seq
       /\ calls' = IF d.raised = None THEN Counted(calls, <<"delete">>) ELSE calls
       /\ ret' = [Called("delete", KsActor, memory_id) EXCEPT
                     !.outcome = d.raised,
                     !.audits = IF d.raised = None THEN <<d.audit>> ELSE <<>>,
                     !.storage_calls = <<"delete">>,
                     !.pg = PgAnswer(raised, audit, <<>>)]
       /\ UNCHANGED <<pending, ks_vars, mem_seq, now>>

\* query(filters, agent_id, policy_check): the filters go into the WHERE
\* clause, the rows it selects are the records examined
SideQuery(filters, agent_id) ==
    LET q == adapter_query(memories, audit_log, audit_seq, now, filters, agent_id)
        rows == SelectSeq(pg.memory, LAMBDA row :
                    /\ row.is_deleted = 0
                    /\ ("memory_types" \in DOMAIN filters =>
                            \E i \in 1..Len(filters["memory_types"].value) :
                                filters["memory_types"].value[i] = row.memory_type)
                    /\ ("sensitivity" \in DOMAIN filters =>
                            row.sensitivity = filters["sensitivity"].value)
                    /\ ("scope" \in DOMAIN filters => row.scope = filters["scope"]))
        results == SelectSeq([i \in 1..Len(rows) |-> _row_to_memory(rows[i])],
                       LAMBDA m : read_denial(m, agent_id, now) = None)
        audit == adapter_audit(q.seq, now, agent_id, "query", None, "allowed",
                     "query_executed_with_filters", agent_id,
                     [total_records_examined |-> Len(rows),
                      filtered_count |-> Len(rows) - Len(results),
                      returned_count |-> Len(results),
                      filters |-> filters])
    IN /\ Len(q.log) <= MaxAudit
       /\ audit_log' = q.log
       /\ pg' = [pg EXCEPT !.audit_log = Append(@, audit)]
       /\ audit_seq' = q.seq + 1
       /\ calls' = Counted(calls, <<"query">>)
       /\ ret' = [Called("query", agent_id, None) EXCEPT
                     !.memories = q.results, !.audits = <<q.audit>>,
                     !.metadata = q.audit.metadata,
                     !.storage_calls = <<"query">>, !.req = filters,
                     !.pg = PgAnswer(None, audit, results)]
       /\ UNCHANGED <<pending, ks_vars, memories, mem_seq, now>>

\* memories m1 and m2 of either agent, non_pii in agent scope or pii in tenant
\* scope, written again under an id in use or deleted; one filter at a time
NextSide ==
    \/ \E n \in 1..MaxMem, agent_id \in Agents,
          kind \in {<<NON_PII, SCOPE_AGENT>>, <<PII, SCOPE_TENANT>>} :
           SideWrite(Memory(MemId(n), agent_id, CONTENT,
                            MemoryPolicy(LONG_TERM, 2, kind[1], kind[2], TRUE), now))
    \/ \E n \in 1..MaxMem, agent_id \in Agents : SideRead(MemId(n), agent_id)
    \/ \E n \in 1..MaxMem : SideDelete(MemId(n))
    \/ \E filters \in {NoFilters, [scope |-> SCOPE_TENANT]}, agent_id \in Agents :
           SideQuery(filters, agent_id)
SpecSide == Init /\ [][NextSide]_vars

\* ------------------------------------------------- the builder and its budgets
\* one word (11 tokens with the overhead) and two words (12 tokens); a memory
\* lives for two ticks of the clock
CtxContents == {<<"w">>, <<"w", " ", "w">>}

CtxWrite ==
    /\ mem_seq < MaxMem
    /\ \E content \in CtxContents :
          AdapterWrite(Memory(MemId(mem_seq + 1), "a", content,
                              MemoryPolicy(LONG_TERM, 2, NON_PII, SCOPE_AGENT, TRUE), now))

\* <<max_items, max_tokens>>: the defaults, item caps below the number of
\* memories, and token budgets around the cost of one and of two memories
CtxBudgets ==
    {<<DEFAULT_MAX_ITEMS, DEFAULT_MAX_TOKENS>>, <<1, DEFAULT_MAX_TOKENS>>,
     <<0, DEFAULT_MAX_TOKENS>>, <<DEFAULT_MAX_ITEMS, 11>>,
     <<DEFAULT_MAX_ITEMS, 12>>, <<1, 23>>}

CtxBuild == \E budget \in CtxBudgets : Build("a", NoFilters, budget[1], budget[2])

\* adapter.get_audit_log() between two builds; ret keeps the last build
CtxGetAuditLog ==
    /\ audit_log' = adapter_get_audit_log(audit_log, None, Absent, Absent, None,
                                          GET_AUDIT_LOG_LIMIT, 0).log
    /\ UNCHANGED <<pending, pg, ks_vars, memories, mem_seq, calls, now, audit_seq, ret>>

NextCtx == Tick \/ CtxWrite \/ CtxBuild \/ CtxGetAuditLog
SpecCtx == Init /\ [][NextCtx]_vars

\* ------------------------------------------------- clients of the API and adapters
\* AMGChatMessageHistory(agent_id, storage, kill_switch).add_message(message),
\* with the constructor's defaults
AddMessage(agent_id) ==
    LET w == add_message(agent_states, memories, audit_log, audit_seq, now,
                         MemId(mem_seq + 1), agent_id, CONTENT, LONG_TERM,
                         NON_PII, SCOPE_AGENT) IN
    /\ Len(w.log) <= MaxAudit
    /\ w.storage_calls # <<>> => mem_seq < MaxMem
    /\ memories' = w.memories
    /\ audit_log' = w.log
    /\ audit_seq' = w.seq
    /\ mem_seq' = IF w.storage_calls # <<>> THEN mem_seq + 1 ELSE mem_seq
    /\ calls' = Counted(calls, w.storage_calls)
    /\ ret' = [Called("add_message", agent_id, MemId(mem_seq + 1)) EXCEPT
                  !.stored = (w.memories # memories),
                  !.storage_calls = w.storage_calls]
    /\ UNCHANGED <<pending, pg, ks_vars, now>>

\* POST /memory/write bodies with one field that is no enumeration value
InvalidWriteRequests ==
    {[agent_id |-> "a", content |-> CONTENT, memory_type |-> bad[1],
      sensitivity |-> bad[2], scope |-> bad[3], ttl_seconds |-> Absent] :
        bad \in {<<"invalid_type", NON_PII, SCOPE_AGENT>>,
                 <<LONG_TERM, "invalid_sensitivity", SCOPE_AGENT>>,
                 <<LONG_TERM, NON_PII, "invalid_scope">>}}

\* POST /memory/query bodies that filter by sensitivity
SensitivityQueryRequests ==
    [agent_id : ApiAgents, memory_types : {Absent}, sensitivity : Sensitivity,
     scope : {None}, limit : {DEFAULT_MAX_ITEMS}]

NextClients ==
    \/ PostDisable \/ PostFreeze \/ PostWrite
    \/ \E req \in InvalidWriteRequests : ApiWrite(req)
    \/ \E req \in SensitivityQueryRequests : ApiQuery(req)
    \/ \E agent_id \in ApiAgents : AddMessage(agent_id)
SpecClients == Init /\ [][NextClients]_vars

\* ------------------------------------------------- policy engine, called directly
\* engine.evaluate_write(memory, agent_id)
EvaluateWrite(memory, agent_id) ==
    LET r == evaluate_write(memory, agent_id) IN
    /\ ret' = [Called("evaluate_write", agent_id, memory.memory_id) EXCEPT
                  !.allowed = (r.decision = "allowed"), !.reason = r.reason,
                  !.metadata = r.metadata, !.req = memory]
    /\ UNCHANGED <<pending, pg, ks_vars, store_vars, now, audit_seq>>

\* ttl_seconds around every bound evaluate_write compares with: zero, the
\* four ceilings and one second over each
PolicyTtls ==
    {0, 1} \cup UNION {{c, c + 1} : c \in {TTL_PII_AGENT, TTL_PII_TENANT,
                                           TTL_NON_PII_AGENT, TTL_NON_PII_TENANT}}
\* the policy is changed after construction, as the tests do, since
\* MemoryPolicy refuses ttl_seconds <= 0
PolicyMemories ==
    {[Memory(MemId(1), agent_id, CONTENT,
             MemoryPolicy(LONG_TERM, 1, sensitivity, scope, TRUE), now)
      EXCEPT !.policy.ttl_seconds = ttl, !.policy.allow_write = allow_write] :
        agent_id \in Agents, sensitivity \in Sensitivity, scope \in Scope,
        ttl \in PolicyTtls, allow_write \in BOOLEAN}

PolicyEvaluateWrite ==
    \E memory \in PolicyMemories, agent_id \in Agents : EvaluateWrite(memory, agent_id)

NextPolicy == PolicyEvaluateWrite
SpecPolicy == Init /\ [][NextPolicy]_vars

\* =========================================================== properties
\* ------------------------------------------------------------ kill switch

\* C4: once disable(X) has returned and no enable(X) since, no
\* check_allowed(X, op), op any of read, write, query, returns allow.
C4_NoAllowAfterDisable ==
    (ret.op = "check_allowed" /\ ret.since_disable) => ~ret.allowed

\* C5: once disable(X) has returned and no enable(X) since, no
\* check_allowed(X, write) returns allow, whatever kill-switch operations on
\* whatever agents came in between.
C5_NoWriteAfterDisable ==
    (ret.op = "check_allowed" /\ ret.arg = OP_WRITE /\ ret.since_disable)
        => ~ret.allowed

\* a write checked and refused for an agent disabled and then frozen
C5_Witness ==
    /\ ret.op = "check_allowed"
    /\ ret.arg = OP_WRITE
    /\ ret.since_disable
    /\ ret.state_at_call = STATE_FROZEN
    /\ ~ret.allowed

\* C6: check_allowed(agent, op) is the decision table: enabled (the default
\* of an agent never seen) allows everything with no reason; frozen allows
\* read and query and denies write with agent_frozen_write_denied; disabled
\* denies everything with agent_disabled.
C6_DecisionTable ==
    ret.op = "check_allowed" =>
        LET seen == {i \in 1..Len(agent_states) : agent_states[i].key = ret.agent}
            state == IF seen = {} THEN "enabled"
                     ELSE agent_states[CHOOSE i \in seen : TRUE].value
        IN /\ ret.arg \in {"read", "write", "query"}
           /\ state \in {"enabled", "frozen", "disabled"}
           /\ state = "enabled" => (ret.allowed /\ ret.reason = None)
           /\ (state = "frozen" /\ ret.arg # "write") => (ret.allowed /\ ret.reason = None)
           /\ (state = "frozen" /\ ret.arg = "write")
                  => (~ret.allowed /\ ret.reason = "agent_frozen_write_denied")
           /\ state = "disabled" => (~ret.allowed /\ ret.reason = "agent_disabled")

\* a frozen agent's write refused, while an agent never seen exists
C6_Witness ==
    /\ ret.op = "check_allowed"
    /\ ret.arg = OP_WRITE
    /\ get_state(agent_states, ret.agent) = STATE_FROZEN
    /\ ret.reason = "agent_frozen_write_denied"
    /\ \E other \in Agents : ~DictHas(agent_states, other)

\* --------------------------------------------------------- storage adapter

\* C2: adapter.query(filters, Y) and builder.build for caller Y never return
\* a memory with scope=agent whose agent_id is not Y, after any writes and
\* deletes by any agents.
C2_ScopeIsolation ==
    ret.op \in {"adapter.query", "build"} =>
        \A i \in 1..Len(ret.memories) :
            ret.memories[i].policy.scope = SCOPE_AGENT
                => ret.memories[i].agent_id = ret.agent

\* a build for Y returns another agent's tenant-scoped memory and holds back
\* that agent's agent-scoped one
C2_Witness ==
    /\ ret.op = "build"
    /\ \E i \in 1..Len(ret.memories) :
           /\ ret.memories[i].agent_id # ret.agent
           /\ ret.memories[i].policy.scope = SCOPE_TENANT
    /\ \E j \in 1..Len(memories) :
           /\ memories[j].value.agent_id # ret.agent
           /\ memories[j].value.policy.scope = SCOPE_AGENT

\* C8: every completed adapter write, read (allowed or denied), query and
\* delete appends exactly one record, with its operation name, to the
\* adapter's audit log: after n completed invocations the log holds n
\* records, as many of each operation as there were invocations of it.
C8_AuditCompleteness ==
    /\ Len(audit_log) = calls["write"] + calls["read"] + calls["query"] + calls["delete"]
    /\ \A o \in {"write", "read", "query", "delete"} :
           Cardinality({i \in 1..Len(audit_log) : audit_log[i].operation = o}) = calls[o]
    /\ (ret.op \in {"adapter.write", "adapter.read", "adapter.query", "adapter.delete"}
            /\ ret.outcome = None)
           => /\ Len(audit_log) = ret.audit_before + 1
              /\ "adapter." \o audit_log[Len(audit_log)].operation = ret.op

\* a denied read has just been logged, after a write and a delete
C8_Witness ==
    /\ ret.op = "adapter.read"
    /\ ~ret.allowed
    /\ Len(audit_log) = 3
    /\ audit_log[3].decision = "denied"
    /\ calls["write"] = 1
    /\ calls["delete"] = 1

\* C10: every request rejected with a PolicyEnforcementError (empty agent_id
\* or ttl_seconds <= 0 in adapter.write, empty agent_id in builder.build)
\* leaves a denied audit record in the audit log.
C10_PolicyViolationAudited ==
    ret.outcome = "PolicyEnforcementError" =>
        /\ Len(audit_log) > ret.audit_before
        /\ audit_log[Len(audit_log)].decision = "denied"

\* ------------------------------------------------------------------- TTL

\* C3: no read, query or context build at a time now >= M.expires_at returns
\* M to any caller, the owner included; read of an expired memory answers
\* None and a denied record with reason memory_expired.
C3_TtlSoundness ==
    /\ ret.op \in {"adapter.read", "adapter.query", "build"} =>
           \A i \in 1..Len(ret.memories) : ret.at < ret.memories[i].expires_at
    /\ (ret.op = "adapter.read"
            /\ \E j \in 1..Len(memories) :
                   /\ memories[j].key = ret.arg
                   /\ ret.at >= memories[j].value.expires_at)
           => /\ ret.memories = <<>>
              /\ audit_log[Len(audit_log)].decision = "denied"
              /\ audit_log[Len(audit_log)].reason = "memory_expired"
              /\ audit_log[Len(audit_log)].memory_id = ret.arg

\* the owner reads its own memory at the very second it expires
C3_Witness ==
    /\ ret.op = "adapter.read"
    /\ ret.reason = "memory_expired"
    /\ \E j \in 1..Len(memories) :
           /\ memories[j].key = ret.arg
           /\ memories[j].value.agent_id = ret.agent
           /\ memories[j].value.expires_at = ret.at

\* -------------------------------------------------------------- HTTP API

\* C1: for an agent whose kill-switch state is disabled, POST /memory/query,
\* POST /context/build and GovernedContextBuilder.build return no memories
\* and perform no storage query.
C1_DisabledAgentReadsNothing ==
    (ret.op \in {"POST /memory/query", "build"} /\ ret.state_at_call = STATE_DISABLED)
        => /\ ret.memories = <<>>
           /\ \A i \in 1..Len(ret.storage_calls) : ret.storage_calls[i] # "query"

\* C7: a POST /memory/write the kill switch lets through, with ttl_seconds
\* over max_ttl(sensitivity, scope), is answered 403 and stores nothing.
C7_TtlCeiling ==
    (/\ ret.op = "POST /memory/write"
     /\ ret.state_at_call = STATE_ENABLED
     /\ ret.req.ttl_seconds # Absent
     /\ ret.req.ttl_seconds[1] > _get_max_ttl(ret.req.sensitivity, ret.req.scope))
        => /\ ret.status = HTTP_FORBIDDEN
           /\ ~ret.stored
           /\ ~DictHas(memories, ret.arg)

\* C9: a write (POST /memory/write, record_memory) or a context build that
\* the kill switch refuses adds exactly one denied audit record to the
\* audit log.
C9_BlockedOperationAudited ==
    (ret.op \in {"POST /memory/write", "record_memory", "build"}
        /\ ret.outcome = "AgentDisabledError")
        => /\ Len(audit_log) = ret.audit_before + 1
           /\ audit_log[Len(audit_log)].decision = "denied"

\* ------------------------------------------------------ audit immutability

\* C11: a record appended to the adapter's audit log stays in the log with
\* every field, metadata and signature included, as it was appended: the
\* record each adapter call or context build put into the log is in the log,
\* unchanged, when the call has returned.
C11_WriteOnce ==
    ret.op \in {"adapter.write", "adapter.read", "adapter.query", "adapter.delete",
                "build"}
        => \A i \in 1..Len(ret.audits) :
               \E j \in 1..Len(audit_log) : audit_log[j] = ret.audits[i]

\* C12: every kill-switch transition (each disable, freeze_writes, enable,
\* each agent disabled by global_shutdown) has exactly one record in the
\* storage adapter's audit log.
C12_TransitionInAdapterLog ==
    ret.op \in {"POST /agent/disable", "POST /agent/freeze",
                "disable", "freeze_writes", "enable", "global_shutdown"}
        => \A i \in 1..Len(ret.audits) :
               Cardinality({j \in 1..Len(audit_log) :
                               audit_log[j].audit_id = ret.audits[i].audit_id}) = 1

\* ------------------------------------------------- kill-switch transitions

C14_StateDiagram ==
    ret.op \in {"disable", "freeze_writes", "enable"} =>
        LET to == get_state(agent_states, ret.agent) IN
        \/ to = ret.state_at_call
        \/ <<ret.state_at_call, to>> \in
               {<<"enabled", "disabled">>, <<"enabled", "frozen">>,
                <<"frozen", "disabled">>, <<"disabled", "enabled">>,
                <<"frozen", "enabled">>}

\* C15: disable, freeze_writes and enable are idempotent on state: from every
\* state of the kill switch and for every agent, calling one of them twice in
\* a row leaves the state table, and with it every check_allowed answer, as
\* calling it once does.
C15_Idempotent ==
    \A agent_id \in Agents :
        LET d1 == ks_disable(agent_states, ks_audit_log, audit_seq, now, agent_id,
                             KsReason, KsActor)
            d2 == ks_disable(d1.states, d1.log, d1.seq, now, agent_id, KsReason, KsActor)
            f1 == ks_freeze_writes(agent_states, ks_audit_log, audit_seq, now, agent_id,
                                   KsReason, KsActor)
            f2 == ks_freeze_writes(f1.states, f1.log, f1.seq, now, agent_id,
                                   KsReason, KsActor)
            e1 == ks_enable(agent_states, ks_audit_log, audit_seq, now, agent_id, KsActor)
            e2 == ks_enable(e1.states, e1.log, e1.seq, now, agent_id, KsActor)
            same(once, twice) ==
                /\ twice.states = once.states
                /\ \A other \in Agents, operation \in OperationType :
                       check_allowed(twice.states, other, operation)
                           = check_allowed(once.states, other, operation)
        IN /\ same(d1, d2)
           /\ same(f1, f2)
           /\ same(e1, e2)
           /\ get_state(d1.states, agent_id) = "disabled"
           /\ get_state(f1.states, agent_id) = "frozen"
           /\ get_state(e1.states, agent_id) = "enabled"

\* disable has been called for an agent that was disabled already
C15_Witness ==
    /\ ret.op = "disable"
    /\ ret.state_at_call = STATE_DISABLED
    /\ get_state(agent_states, ret.agent) = STATE_DISABLED
    /\ Cardinality({i \in 1..Len(ks_audit_log) :
                       /\ ks_audit_log[i].value.operation = "disable"
                       /\ ks_audit_log[i].value.agent_id = ret.agent}) = 2

C17_ReadScopeIsolation ==
    (ret.op = "adapter.read"
        /\ \E j \in 1..Len(memories) :
               /\ memories[j].key = ret.arg
               /\ memories[j].value.policy.scope = SCOPE_AGENT
               /\ memories[j].value.agent_id # ret.agent)
        => /\ ret.memories = <<>>
           /\ audit_log[Len(audit_log)].decision = "denied"
           /\ audit_log[Len(audit_log)].reason = "scope_isolation_violation"

\* C17, amended: such a read returns None and a denied record; the reason is
\* scope_isolation_violation while M has not expired and memory_expired from
\* M.expires_at on.
C17_ReadScopeIsolationUnexpired ==
    \A j \in 1..Len(memories) :
        (/\ ret.op = "adapter.read"
         /\ memories[j].key = ret.arg
         /\ memories[j].value.policy.scope = SCOPE_AGENT
         /\ memories[j].value.agent_id # ret.agent)
            => /\ ret.memories = <<>>
               /\ audit_log[Len(audit_log)].decision = "denied"
               /\ audit_log[Len(audit_log)].operation = "read"
               /\ audit_log[Len(audit_log)].memory_id = ret.arg
               /\ audit_log[Len(audit_log)].agent_id = ret.agent
               /\ audit_log[Len(audit_log)].reason =
                      (IF ret.at < memories[j].value.expires_at
                       THEN "scope_isolation_violation" ELSE "memory_expired")

\* b has read a's agent-scoped memory before it expired
C17_Witness ==
    /\ ret.op = "adapter.read"
    /\ ret.reason = "scope_isolation_violation"
    /\ \E j \in 1..Len(memories) :
           /\ memories[j].key = ret.arg
           /\ memories[j].value.policy.scope = SCOPE_AGENT
           /\ memories[j].value.agent_id # ret.agent
           /\ ret.at < memories[j].value.expires_at

C21_EvaluateWriteOrder ==
    ret.op = "evaluate_write" =>
        LET memory == ret.req
            ttl == memory.policy.ttl_seconds
            ceiling ==
                CASE memory.policy.sensitivity = "pii" /\ memory.policy.scope = "agent"
                        -> 86400
                  [] memory.policy.sensitivity = "pii" /\ memory.policy.scope = "tenant"
                        -> 604800
                  [] memory.policy.sensitivity = "non_pii" /\ memory.policy.scope = "agent"
                        -> 2592000
                  [] memory.policy.sensitivity = "non_pii" /\ memory.policy.scope = "tenant"
                        -> 7776000
            expected ==
                IF memory.agent_id # ret.agent THEN "agent_ownership_violation"
                ELSE IF ttl <= 0 THEN "invalid_ttl"
                ELSE IF ttl > ceiling THEN "ttl_exceeds_policy"
                ELSE IF ~memory.policy.allow_write THEN "write_not_allowed"
                ELSE "all_policy_checks_passed"
        IN /\ ret.reason = expected
           /\ ret.allowed = (expected = "all_policy_checks_passed")

\* a pii, agent-scoped memory with ttl_seconds at the ceiling is allowed
C21_Witness ==
    /\ ret.op = "evaluate_write"
    /\ ret.req.policy.sensitivity = PII
    /\ ret.req.policy.scope = SCOPE_AGENT
    /\ ret.req.policy.ttl_seconds = TTL_PII_AGENT
    /\ ret.allowed
    /\ ret.reason = "all_policy_checks_passed"

\* ------------------------------------------------------- adapter audit log

\* C22: get_audit_log of a storage adapter returns, for a limit and an offset
\* that are not negative, the matching records newest first, restricted to
\* the requested agent_id, operation and [start, end] range, and at most
\* limit of them.
C22_GetAuditLogContract ==
    (/\ ret.op \in {"adapter.get_audit_log", "postgres.get_audit_log"}
     /\ ret.req.limit >= 0 /\ ret.req.offset >= 0) =>
        /\ ret.outcome = None
        /\ \A i, j \in 1..Len(ret.audits) :
              i < j => ret.audits[i].timestamp >= ret.audits[j].timestamp
        /\ \A i \in 1..Len(ret.audits) :
              /\ \E k \in 1..Len(audit_log) : audit_log[k] = ret.audits[i]
              /\ ret.req.agent_id # None => ret.audits[i].agent_id = ret.req.agent_id
              /\ ret.req.operation # None => ret.audits[i].operation = ret.req.operation
              /\ ret.req.start_time # Absent =>
                    ret.audits[i].timestamp >= ret.req.start_time[1]
              /\ ret.req.end_time # Absent =>
                    ret.audits[i].timestamp <= ret.req.end_time[1]
        /\ Len(ret.audits) <= ret.req.limit

\* C23: get_audit_log() without filters returns the audit records in the
\* order in which their operations were performed (the record of the k-th
\* operation at index k-1, audit ids being handed out in that order), with
\* non-decreasing timestamps.
C23_GetAuditLogOperationOrder ==
    (/\ ret.op = "adapter.get_audit_log"
     /\ ret.req = [agent_id |-> None, start_time |-> Absent, end_time |-> Absent,
                   operation |-> None, limit |-> GET_AUDIT_LOG_LIMIT, offset |-> 0]) =>
        /\ Len(ret.audits) = Len(audit_log)
        /\ \A k \in 1..Len(ret.audits) : ret.audits[k].audit_id = k
        /\ \A i, j \in 1..Len(ret.audits) :
              i < j => ret.audits[i].timestamp <= ret.audits[j].timestamp

\* C24: audit records are chronologically ordered as appended: of any two
\* records in the adapter's audit log the one appended earlier has a timestamp
\* <= the one appended later, also for kill-switch records injected through
\* write_audit_record while other requests run.
C24_AppendedInTimestampOrder ==
    \A i, j \in 1..Len(audit_log) :
        i < j => audit_log[i].timestamp <= audit_log[j].timestamp

\* ------------------------------------------------ governed context builder

\* C25: for every build with max_tokens >= 0 the builder walks the adapter's
\* result in order, counting whitespace_token_count(content) + 10 per memory,
\* and stops at the first memory that would push the running total above
\* max_tokens: token_count is the cost of that prefix and is <= max_tokens,
\* and no memory behind the stop is returned, a smaller one included.
C25_TokenBudget ==
    (ret.op = "build" /\ ret.outcome = None /\ ret.req.max_tokens >= 0) =>
        LET q == ret.queried
            words(i) == {<<i, p>> : p \in {p \in 1..Len(q[i].content) :
                            /\ q[i].content[p] # " "
                            /\ (p = 1 \/ q[i].content[p - 1] = " ")}}
            cost(n) == 10 * n + Cardinality(UNION {words(i) : i \in 1..n})
            stop == CHOOSE n \in 0..Len(q) :
                        /\ cost(n) <= ret.req.max_tokens
                        /\ n < Len(q) => cost(n + 1) > ret.req.max_tokens
        IN /\ ret.metadata.token_count = cost(stop)
           /\ ret.metadata.token_count <= ret.req.max_tokens
           /\ Len(ret.memories) <= stop
           /\ ret.memories = SubSeq(q, 1, Len(ret.memories))
           /\ ret.req.max_items >= stop => Len(ret.memories) = stop

\* a two-word memory (12 tokens) ahead of a one-word memory (11 tokens) with
\* max_tokens = 11: the walk stops at the first and the second is not taken
C25_Witness ==
    /\ ret.op = "build" /\ ret.outcome = None
    /\ ret.req.max_tokens = 11
    /\ Len(ret.queried) = 2
    /\ whitespace_token_count(ret.queried[1].content) = 2
    /\ whitespace_token_count(ret.queried[2].content) = 1
    /\ ret.memories = <<>>
    /\ ret.metadata.token_count = 0

\* C26: the memories returned by build are a prefix of the list returned by
\* adapter.query, in the same order, of length at most max_items (for
\* max_items >= 0), and metadata.returned_count is their number.
C26_ItemCap ==
    (ret.op = "build" /\ ret.outcome = None) =>
        /\ Len(ret.memories) <= Len(ret.queried)
        /\ \A i \in 1..Len(ret.memories) : ret.memories[i] = ret.queried[i]
        /\ ret.req.max_items >= 0 => Len(ret.memories) <= ret.req.max_items
        /\ ret.metadata.returned_count = Len(ret.memories)

\* two memories match and max_items = 1: the first one is returned
C26_Witness ==
    /\ ret.op = "build" /\ ret.outcome = None
    /\ ret.req.max_items = 1
    /\ Len(ret.queried) = 2
    /\ ret.memories = <<ret.queried[1]>>
    /\ ret.metadata.returned_count = 1

\* C27: whenever build drops at least one memory because of the token budget
\* (the budget pass stops before the end of the adapter's result), the
\* metadata of the returned GovernedContext has truncated_by_token_budget = true.
C27_TruncationInContextMetadata ==
    (/\ ret.op = "build" /\ ret.outcome = None
     /\ \E n \in 1..Len(ret.queried) :
           /\ \A i \in 1..(n - 1) : ret.memories[i] = ret.queried[i]
           /\ Len(ret.memories) = n - 1
           /\ ret.req.max_items >= n
           /\ ret.metadata.token_count
                + whitespace_token_count(ret.queried[n].content) + TOKEN_OVERHEAD
                > ret.req.max_tokens) =>
        /\ "truncated_by_token_budget" \in DOMAIN ret.metadata
        /\ ret.metadata.truncated_by_token_budget = TRUE

C29_FreezeBlocksWritesPermitsReads ==
    [][/\ (/\ ret'.op = "POST /memory/write"
           /\ get_state(agent_states, ret'.agent) = STATE_FROZEN) =>
              /\ ret'.status = 423
              /\ memories' = memories
              /\ Len(audit_log') = Len(audit_log) + 1
              /\ SubSeq(audit_log', 1, Len(audit_log)) = audit_log
              /\ audit_log'[Len(audit_log')].operation = "write"
              /\ audit_log'[Len(audit_log')].decision = "denied"
              /\ audit_log'[Len(audit_log')].agent_id = ret'.agent
       /\ (/\ ret'.op = "build"
           /\ get_state(agent_states, ret'.agent) = STATE_FROZEN) =>
              /\ ret'.status = 200
              /\ ret'.memories =
                    SelectSeq(DictValues(memories),
                              LAMBDA m : m.agent_id = ret'.agent)]_vars

\* a write of the frozen agent a, who has a memory in storage, answered 423
C29_Witness ==
    /\ ret.op = "POST /memory/write"
    /\ ret.state_at_call = STATE_FROZEN
    /\ ret.status = HTTP_LOCKED
    /\ memories # <<>>
    /\ audit_log[Len(audit_log)].decision = "denied"

\* C30: a disabled or frozen agent can be re-enabled through the API: POST
\* /agent/{id}/enable answers 200, sets the agent's kill-switch state to
\* enabled and persists an enable audit record.
C30_EnableThroughApi ==
    (/\ ret.op = "POST /agent/enable"
     /\ ret.state_at_call \in {STATE_DISABLED, STATE_FROZEN}) =>
        /\ ret.status = 200
        /\ get_state(agent_states, ret.agent) = STATE_ENABLED
        /\ \E i \in 1..Len(audit_log) :
              audit_log[i].operation = "enable" /\ audit_log[i].agent_id = ret.agent

\* ------------------------------------------------------------- clients

\* C31: AMGChatMessageHistory.add_message never calls storage.write when the
\* kill switch denies write for its agent (disabled or frozen): the message
\* is dropped and storage is unchanged.
C31_AddMessageBlocked ==
    (ret.op = "add_message" /\ ret.state_at_call \in {STATE_DISABLED, STATE_FROZEN}) =>
        /\ ret.storage_calls = <<>>
        /\ ~ret.stored
        /\ Len(audit_log) = ret.audit_before

\* C32: a query that carries a sensitivity filter returns only memories whose
\* sensitivity is the requested one: with non_pii (as POST /memory/query
\* passes it) no pii memory, with pii no non_pii memory.
C32_SensitivityFilter ==
    (ret.op = "POST /memory/query" /\ ret.req.sensitivity \in Sensitivity) =>
        \A i \in 1..Len(ret.memories) :
            ret.memories[i].policy.sensitivity = ret.req.sensitivity

\* C33: a POST /memory/write request whose memory_type, sensitivity or scope
\* is not a known enumeration value is answered 400, stores no memory and
\* appends no audit record, in every kill-switch state of the agent.
C33_InvalidEnumeration ==
    (/\ ret.op = "POST /memory/write"
     /\ \/ ret.req.memory_type \notin {"short_term", "long_term", "episodic"}
        \/ ret.req.sensitivity \notin {"pii", "non_pii"}
        \/ ret.req.scope \notin {"agent", "tenant"}) =>
        /\ ret.status = 400
        /\ ~ret.stored
        /\ Len(audit_log) = ret.audit_before


\* C34: every record in the adapter's audit log, made by the adapter or passed
\* to write_audit_record by the kill switch's callers, carries a non-empty
\* signature equal to the adapter's signing function over {audit_id, timestamp,
\* agent_id, operation, memory_id, decision, reason}
C34_AuditSignatures ==
    \A i \in 1..Len(audit_log) :
        /\ audit_log[i].signature # NoSignature
        /\ audit_log[i].signature = sign_record(audit_log[i])


C37_CheckAndWriteAtomic ==
    [][\A i \in 1..Len(memories') :
           ~DictHas(memories, memories'[i].key) =>
               check_allowed(agent_states, memories'[i].value.agent_id,
                             OP_WRITE).allowed]_vars


\* C38: get_audit_log is read-only: whatever filters, limit and offset it is
\* called with, the adapter's audit log holds the same records in the same
\* stored order afterwards.
C38_GetAuditLogReadOnly ==
    [][ret'.op \in {"adapter.get_audit_log", "postgres.get_audit_log"}
           => audit_log' = audit_log]_vars


\* C39: in every context build returns, metadata.token_count is the sum, over
\* the memories returned, of whitespace_token_count(content) + 10, also when
\* max_items cuts the list after the token-budget pass.
C39_TokenCountOfReturned ==
    (ret.op = "build" /\ ret.outcome = None) =>
        LET m == ret.memories
            words(i) == {<<i, p>> : p \in {p \in 1..Len(m[i].content) :
                            /\ m[i].content[p] # " "
                            /\ (p = 1 \/ m[i].content[p - 1] = " ")}}
        IN ret.metadata.token_count
               = TOKEN_OVERHEAD * Len(m) + Cardinality(UNION {words(i) : i \in 1..Len(m)})


\* C36: a write never replaces a stored memory: after adapter.write with a
\* Memory whose memory_id is already in storage, written by the same agent or
\* by another, the stored memory has the content, agent_id and policy it had.
C36_WriteNeverReplaces ==
    [][(ret'.op = "write" /\ DictHas(memories, ret'.arg)) =>
           /\ DictHas(memories', ret'.arg)
           /\ DictGet(memories', ret'.arg).content = DictGet(memories, ret'.arg).content
           /\ DictGet(memories', ret'.arg).agent_id = DictGet(memories, ret'.arg).agent_id
           /\ DictGet(memories', ret'.arg).policy = DictGet(memories, ret'.arg).policy]_vars

\* C40: the in-memory and the sqlite-backed adapter, given the same sequence
\* of write, read, delete and query calls, answer every call alike: the same
\* error, the same decision and reason, the same memories, and for a query
\* the same filtered_count and total_records_examined.
C40_AdaptersEquivalent ==
    ret.op \in {"write", "read", "delete", "query"} =>
        /\ ret.pg.raised = ret.outcome
        /\ ret.outcome = None =>
               /\ ret.pg.decision = ret.audits[1].decision
               /\ ret.pg.reason = ret.audits[1].reason
        /\ {ret.pg.memories[i] : i \in 1..Len(ret.pg.memories)}
               = {ret.memories[i] : i \in 1..Len(ret.memories)}
        /\ ret.op = "query" =>
               /\ ret.pg.metadata.filtered_count = ret.metadata.filtered_count
               /\ ret.pg.metadata.total_records_examined
                      = ret.metadata.total_records_examined

====
